---- MODULE Spec2Model ----
(***************************************************************************)
(* Model of the core of the Compass Unified Parser:                         *)
(*   - the Op attribute model (ops/op.py: Op.update_attributes,             *)
(*     Op.__setattr__, Op.check_required, OnnxOp.cal_ver and the            *)
(*     constructor chains of the op classes),                               *)
(*   - the output bookkeeping of shape inference (set_out_tensor of the     *)
(*     single-, multiple- and variable-output capabilities),                *)
(*   - the stage pipeline of univ_parser (univ_main.py).                    *)
(***************************************************************************)
EXTENDS Integers, Sequences, FiniteSets, TLC

(***************************************************************************)
(* Python values.  Every value is a record of the same shape so that any   *)
(* two values can be compared: t is the Python type, n the number of an    *)
(* int or of a float (only integral floats occur), s the text of a str,    *)
(* l the items of a list of numbers.                                       *)
(***************************************************************************)
None == [t |-> "none", n |-> 0, s |-> "", l |-> <<>>]
PyInt(n) == [t |-> "int", n |-> n, s |-> "", l |-> <<>>]
PyFloat(n) == [t |-> "float", n |-> n, s |-> "", l |-> <<>>]
PyStr(s) == [t |-> "str", n |-> 0, s |-> s, l |-> <<>>]
PyInts(l) == [t |-> "ints", n |-> 0, s |-> "", l |-> l]
PyFloats(l) == [t |-> "floats", n |-> 0, s |-> "", l |-> l]

IsNum(v) == v.t \in {"int", "float"}
IsList(v) == v.t \in {"ints", "floats"}

\* Python ==: numbers compare by value across int and float, lists by items.
PyEq(a, b) ==
    \/ IsNum(a) /\ IsNum(b) /\ a.n = b.n
    \/ IsList(a) /\ IsList(b) /\ a.l = b.l
    \/ a.t = "str" /\ b.t = "str" /\ a.s = b.s
    \/ a.t = "none" /\ b.t = "none"

\* Python `v in options`.
PyIn(v, options) == \E o \in options : PyEq(v, o)

(***************************************************************************)
(* Bounds of the model.                                                    *)
(***************************************************************************)
\* Schema versions a class may declare are 1..MaxVer; requested opsets are
\* 0..MaxVer+1.
MaxVer == 3
\* Attribute assignments (op.key = value) made on a constructed op.
MaxSets == 1

VARIABLES
    cls,        \* the op's concrete class
    vers,       \* versions the concrete class declares, in declaration order
    attr_dict,  \* the attr_dict handed to the constructor
    attrs,      \* the op's _attr: name -> Attribute or raw value
    pc,         \* next __init__ body of the chain to run, or 0 once it ended
    built,      \* "no", "yes" (object returned) or "failed" (constructor raised)
    raised,     \* the exception that ended construction, or "none"
    upd,        \* the last update_attributes call: class, attr_dict, _attr before/after
    nsets,      \* number of attribute assignments made
    lastset,    \* the last assignment: key, value, _attr before, exception raised
    chk,        \* result of the last check_required() call on the built op
    oplog       \* the warnings logged while the op was constructed

opvars == <<cls, vers, attr_dict, attrs, pc, built, raised, upd, nsets, lastset, chk, oplog>>

(***************************************************************************)
(* common/defs.py Attribute: type, value, default, required, options.      *)
(* update(params) overwrites the fields params names; a value that is not  *)
(* one of the declared options is refused with an attribute error.         *)
(***************************************************************************)
NewAttribute ==
    [kind |-> "Attribute", type |-> "UNDEFINED", value |-> None,
     default |-> None, required |-> FALSE, options |-> {}]

Raw(v) ==
    [kind |-> "raw", type |-> "UNDEFINED", value |-> v,
     default |-> None, required |-> FALSE, options |-> {}]

\* One entry of a class's attributes() dict; has = the keys the entry gives.
Param(has, type, default, required, options) ==
    [has |-> has, type |-> type, default |-> default, required |-> required,
     options |-> options]

AttributeUpdate(a, p, hasValue, v) ==
    LET a1 == [a EXCEPT
                 !.type = IF "type" \in p.has THEN p.type ELSE @,
                 !.default = IF "default" \in p.has THEN p.default ELSE @,
                 !.required = IF "required" \in p.has THEN p.required ELSE @,
                 !.options = IF "options" \in p.has THEN p.options ELSE @]
    IN  IF ~hasValue THEN [ok |-> TRUE, attr |-> a1]
        ELSE IF a1.options # {} /\ ~PyIn(v, a1.options)
             THEN [ok |-> FALSE, attr |-> a]
             ELSE [ok |-> TRUE, attr |-> [a1 EXCEPT !.value = v]]

(***************************************************************************)
(* The op classes: their attributes() dicts, in declaration order, and     *)
(* their constructor chains.                                               *)
(***************************************************************************)
DataFormats == {PyStr("NWC"), PyStr("NCW"), PyStr("NHWC"), PyStr("NCHW"), PyStr("NDHWC"), PyStr("NCDHW")}

OpAttributes ==
    << <<"name", Param({"type", "default", "required"}, "STRING", PyStr(""), TRUE, {})>>,
       <<"data_format", Param({"type", "default", "options", "required"}, "STRING",
                              PyStr("NHWC"), TRUE, DataFormats)>>,
       <<"cur_version", Param({"type", "default", "required"}, "INT", PyInt(0), FALSE, {})>> >>

OnnxOpAttributes ==
    << <<"opset_version", Param({"type", "default", "required"}, "INT", PyInt(1), TRUE, {})>> >>

TfliteOpAttributes ==
    << <<"opcode_version", Param({"type", "default", "required"}, "INT", PyInt(1), TRUE, {})>> >>

TfOpAttributes ==
    << <<"data_format", Param({"default"}, "UNDEFINED", PyStr("NHWC"), FALSE, {})>>,
       <<"dtype", Param({"type", "required", "default"}, "STRING", PyStr("float32"), FALSE, {})>>,
       <<"Tidx", Param({"type", "default", "options"}, "STRING", PyStr("int32"), FALSE,
                       {PyStr("int8"), PyStr("int16"), PyStr("int32"), PyStr("int64"),
                        PyStr("uint16"), PyStr("uint32"), PyStr("bfloat16"), PyStr("half"),
                        PyStr("float32"), PyStr("float64"), PyStr("float"), PyStr("double")})>>,
       <<"opcode_version", Param({"type", "required", "default"}, "INT", PyInt(1), FALSE, {})>> >>

OpHasMethodAttributes ==
    << <<"method", Param({"type", "required"}, "STRING", None, TRUE, {})>> >>

OpHasAxisAttributes ==
    << <<"axis", Param({"type", "default"}, "INT", PyInt(0), FALSE, {})>>,
       <<"axes", Param({"type", "default"}, "INTS", None, FALSE, {})>>,
       <<"keepdims", Param({"type", "default"}, "INT", PyInt(1), FALSE, {})>>,
       <<"new_axis", Param({"type", "default"}, "INT", PyInt(0), FALSE, {})>> >>

BaseActivationOpAttributes ==
    << <<"activations", Param({"type", "default", "options", "required"}, "STRING",
                              PyStr("NONE"), TRUE,
                              {PyStr("NONE"), PyStr("CLIP"), PyStr("CELU"), PyStr("RELU"),
                               PyStr("RELU6"), PyStr("LEAKYRELU"), PyStr("PRELU"),
                               PyStr("RELU_N1_TO_1"), PyStr("SIGMOID"), PyStr("TANH"),
                               PyStr("SOFTSIGN"), PyStr("SELU")})>>,
       <<"negative_slope", Param({"type"}, "TENSOR", None, FALSE, {})>>,
       <<"negative_slope_offset", Param({"type", "default"}, "INT", PyInt(-1), FALSE, {})>>,
       <<"clip_min", Param({"type", "default"}, "FLOAT", None, FALSE, {})>>,
       <<"clip_max", Param({"type", "default"}, "FLOAT", None, FALSE, {})>> >>

GeluAttributes ==
    << <<"approximate", Param({"type", "default", "options"}, "STRINGS", PyStr("none"), FALSE,
                              {PyStr("none"), PyStr("tanh")})>> >>

AccidentalHitsAttributes ==
    << <<"num_true", Param({"type", "required"}, "INT", None, TRUE, {})>> >>

CropAndResizeAttributes ==
    << <<"crop_size", Param({"type", "default"}, "INTS", PyInts(<<>>), FALSE, {})>>,
       <<"method", Param({"default", "options"}, "UNDEFINED", PyStr("BILINEAR"), FALSE,
                         {PyStr("BILINEAR"), PyStr("NEAREST")})>>,
       <<"extrapolation_value", Param({"type", "default"}, "FLOAT", PyFloat(0), FALSE, {})>> >>

\* ReduceVarianceOp declares the same entries for every version it declares.
ReduceVarianceAttributes ==
    << <<"keepdims", Param({"default"}, "UNDEFINED", PyInt(1), FALSE, {})>>,
       <<"unbiased", Param({"type", "default", "options"}, "INT", PyInt(0), FALSE,
                           {PyInt(0), PyInt(1)})>> >>

\* TfliteReduceOp is abstract and its dict is keyed by version ({1: {}, 2: {}}):
\* update_attributes walks it as an unversioned dict, entry names 1 and 2.
TfliteReduceOpAttributes ==
    << <<"1", Param({}, "UNDEFINED", None, FALSE, {})>>,
       <<"2", Param({}, "UNDEFINED", None, FALSE, {})>> >>

\* A concrete op of the TFLite and of the TF front end declares one dict of
\* entries per opcode version; the later version adds an entry and changes a
\* default.
LayerAttributes(v) ==
    IF v = 1
    THEN << <<"alpha", Param({"type", "default"}, "INT", PyInt(1), FALSE, {})>> >>
    ELSE << <<"alpha", Param({"type", "default"}, "INT", PyInt(2), FALSE, {})>>,
            <<"beta", Param({"type", "default"}, "INT", PyInt(0), FALSE, {})>> >>

Classes == {"ReduceVariance", "CropAndResize", "AccidentalHits", "LiteReduce", "CaffeLayer",
            "LiteLayer", "TfLayer", "Gelu"}

Framework(c) ==
    CASE c = "ReduceVariance" -> "onnx"
      [] c = "LiteReduce" -> "tflite"
      [] c = "LiteLayer" -> "tflite"
      [] c = "TfLayer" -> "tf"
      [] c = "CaffeLayer" -> "caffe"
      [] OTHER -> "common"

\* The __init__ bodies a constructor runs, innermost super() first; classes
\* whose __init__ only calls super() are left out.
Chain(c) ==
    CASE c = "ReduceVariance" -> <<"Op", "OnnxOp", "OpHasAxis", "ReduceVariance">>
      [] c = "CropAndResize" -> <<"Op", "OpHasMethod", "CropAndResize">>
      [] c = "AccidentalHits" -> <<"Op", "AccidentalHits">>
      [] c = "LiteReduce" ->
            <<"Op", "TfliteOp", "OpHasAxis", "TfliteReduceOp", "LiteReduce">>
      [] c = "CaffeLayer" -> <<"Op", "CaffeOp", "CaffeLayer">>
      [] c = "LiteLayer" -> <<"Op", "TfliteOp", "LiteLayer">>
      [] c = "TfLayer" -> <<"Op", "TfOp", "TfLayer">>
      [] c = "Gelu" -> <<"Op", "BaseActivationOp", "Gelu">>

\* inspect.isabstract(cls): the capability and framework base classes leave
\* infer_shape abstract.
IsAbstract(level) == level \notin Classes

\* cls.attributes() of a class with an unversioned dict.  CaffeOp defines no
\* attributes() of its own and inherits Op's.
Attributes(level) ==
    CASE level = "Op" -> OpAttributes
      [] level = "CaffeOp" -> OpAttributes
      [] level = "OnnxOp" -> OnnxOpAttributes
      [] level = "TfliteOp" -> TfliteOpAttributes
      [] level = "TfOp" -> TfOpAttributes
      [] level = "BaseActivationOp" -> BaseActivationOpAttributes
      [] level = "Gelu" -> GeluAttributes
      [] level = "OpHasMethod" -> OpHasMethodAttributes
      [] level = "OpHasAxis" -> OpHasAxisAttributes
      [] level = "AccidentalHits" -> AccidentalHitsAttributes
      [] level = "CropAndResize" -> CropAndResizeAttributes
      [] level = "TfliteReduceOp" -> TfliteReduceOpAttributes
      [] OTHER -> <<>>

\* cls.attributes()[v] of a concrete class with a versioned dict.
VerAttributes(level, v) ==
    CASE level = "ReduceVariance" -> ReduceVarianceAttributes
      [] level \in {"LiteLayer", "TfLayer"} -> LayerAttributes(v)
      [] OTHER -> <<>>

Range(s) == {s[i] : i \in DOMAIN s}
Max(S) == CHOOSE x \in S : \A y \in S : y <= x
Put(f, k, v) == [x \in DOMAIN f \cup {k} |-> IF x = k THEN v ELSE f[x]]
Names(schema) == {schema[i][1] : i \in DOMAIN schema}

(***************************************************************************)
(* Python conversions used by Op.__setattr__: str(), int(), float() and    *)
(* list().  Each returns [ok, v]; ok = FALSE is a raised ValueError or      *)
(* TypeError.                                                              *)
(***************************************************************************)
\* Largest number a str of the model spells.
MaxParse == 12

IsDigits(s) == \E n \in 0..MaxParse : ToString(n) = s
ParseInt(s) == CHOOSE n \in 0..MaxParse : ToString(n) = s

RECURSIVE JoinNums(_, _, _)
JoinNums(l, i, float) ==
    IF i > Len(l) THEN ""
    ELSE (IF i > 1 THEN ", " ELSE "") \o ToString(l[i])
         \o (IF float THEN ".0" ELSE "") \o JoinNums(l, i + 1, float)

PyStrOf(v) ==
    CASE v.t = "none" -> "None"
      [] v.t = "int" -> ToString(v.n)
      [] v.t = "float" -> ToString(v.n) \o ".0"
      [] v.t = "str" -> v.s
      [] v.t = "ints" -> "[" \o JoinNums(v.l, 1, FALSE) \o "]"
      [] v.t = "floats" -> "[" \o JoinNums(v.l, 1, TRUE) \o "]"

Fail == [ok |-> FALSE, v |-> None]
Ok(v) == [ok |-> TRUE, v |-> v]

\* int(v) and float(v) as a number, or a failure.
NumOf(v) ==
    CASE IsNum(v) -> Ok(v.n)
      [] v.t = "str" /\ IsDigits(v.s) -> Ok(ParseInt(v.s))
      [] OTHER -> [ok |-> FALSE, v |-> 0]

\* list(v) of an Iterable converted item by item; a str iterates its characters.
Digits(n) == IF n < 10 THEN <<n>> ELSE <<n \div 10, n % 10>>
ItemsOf(v) ==
    CASE IsList(v) -> [ok |-> TRUE, v |-> v.l]
      [] v.t = "str" /\ v.s = "" -> [ok |-> TRUE, v |-> <<>>]
      [] v.t = "str" /\ IsDigits(v.s) -> [ok |-> TRUE, v |-> Digits(ParseInt(v.s))]
      [] OTHER -> [ok |-> FALSE, v |-> <<>>]

IsIterable(v) == v.t \in {"str", "ints", "floats"}

Coerce(type, v) ==
    CASE type = "STRING" -> Ok(PyStr(PyStrOf(v)))
      [] type = "INT" ->
            IF NumOf(v).ok THEN Ok(PyInt(NumOf(v).v)) ELSE Fail
      [] type = "INTS" ->
            IF ~IsIterable(v)
            THEN (IF NumOf(v).ok THEN Ok(PyInts(<<NumOf(v).v>>)) ELSE Fail)
            ELSE (IF ItemsOf(v).ok THEN Ok(PyInts(ItemsOf(v).v)) ELSE Fail)
      [] type = "FLOAT" ->
            IF NumOf(v).ok THEN Ok(PyFloat(NumOf(v).v)) ELSE Fail
      [] type = "FLOATS" ->
            IF ~IsIterable(v)
            THEN (IF NumOf(v).ok THEN Ok(PyFloats(<<NumOf(v).v>>)) ELSE Fail)
            ELSE (IF ItemsOf(v).ok THEN Ok(PyFloats(ItemsOf(v).v)) ELSE Fail)
      [] OTHER -> Ok(v)

\* Op.__setattr__ for a key other than _graph, _type, _attr, type.  Returns
\* the new _attr and the exception that reaches the caller ("none": the bare
\* except clause catches everything raised in the try block).
SetAttrOf(as, key, value) ==
    IF key \notin DOMAIN as \/ as[key].kind # "Attribute"
    THEN [attrs |-> Put(as, key, Raw(value)), raised |-> "none"]
    ELSE LET c == Coerce(as[key].type, value)
         IN  IF c.ok
             THEN [attrs |-> [as EXCEPT ![key].value = c.v], raised |-> "none"]
             ELSE [attrs |-> Put(as, key, Raw(value)), raised |-> "none"]

(***************************************************************************)
(* Op.update_attributes(cls, attr_dict).  Returns the new _attr and the    *)
(* exception raised ("none" when the call returns).                        *)
(***************************************************************************)
\* Faulty variant of UpdateLoop: an Attribute's refusal is swallowed and the loop goes on.
RECURSIVE UpdateLoopSwallow(_, _, _, _)
UpdateLoopSwallow(as, schema, dict, i) ==
    IF i > Len(schema) THEN [attrs |-> as, raised |-> "none"]
    ELSE LET k == schema[i][1]
             p == schema[i][2]
             hasValue == k \in DOMAIN dict \/ "default" \in p.has
             v == IF k \in DOMAIN dict THEN dict[k] ELSE p.default
             old == IF k \in DOMAIN as THEN as[k] ELSE NewAttribute
             r == AttributeUpdate(old, p, hasValue, v)
         IN  IF ~r.ok THEN UpdateLoopSwallow(Put(as, k, [old EXCEPT !.value = v]),
                                             schema, dict, i + 1)
             ELSE UpdateLoopSwallow(Put(as, k, r.attr), schema, dict, i + 1)

\* Faulty variant of UpdateLoop: the schema default wins over the provided value.
RECURSIVE UpdateLoopDefaultFirst(_, _, _, _)
UpdateLoopDefaultFirst(as, schema, dict, i) ==
    IF i > Len(schema) THEN [attrs |-> as, raised |-> "none"]
    ELSE LET k == schema[i][1]
             p == schema[i][2]
             hasValue == k \in DOMAIN dict \/ "default" \in p.has
             v == IF "default" \in p.has THEN p.default ELSE dict[k]
             old == IF k \in DOMAIN as THEN as[k] ELSE NewAttribute
             r == AttributeUpdate(old, p, hasValue, v)
         IN  IF ~r.ok THEN [attrs |-> as, raised |-> "AttributeError"]
             ELSE UpdateLoopDefaultFirst(Put(as, k, r.attr), schema, dict, i + 1)

RECURSIVE UpdateLoop(_, _, _, _)
UpdateLoop(as, schema, dict, i) ==
    IF i > Len(schema) THEN [attrs |-> as, raised |-> "none"]
    ELSE LET k == schema[i][1]
             p == schema[i][2]
             hasValue == k \in DOMAIN dict \/ "default" \in p.has
             v == IF k \in DOMAIN dict THEN dict[k] ELSE p.default
             old == IF k \in DOMAIN as THEN as[k] ELSE NewAttribute
             r == AttributeUpdate(old, p, hasValue, v)
         IN  IF ~r.ok THEN [attrs |-> as, raised |-> "AttributeError"]
             ELSE UpdateLoop(Put(as, k, r.attr), schema, dict, i + 1)

SupportedOps == {"onnx", "tflite", "caffe", "tf"}

\* The value is a dict key of the versioned attributes() (an int of keys).
IsKey(v, keys) == IsNum(v) /\ v.n \in keys

\* Faulty variant of update_attributes: the assertion on cur_version is missing.
update_attributes_NoAssert(as, c, vs, level, dict) ==
    IF IsAbstract(level) \/ Framework(c) \notin SupportedOps
    THEN UpdateLoop(as, Attributes(level), dict, 1)
    ELSE LET a1 == IF Framework(c) \in {"tflite", "tf"}
                   THEN [as EXCEPT !["cur_version"].value = as["opcode_version"].value]
                   ELSE IF Framework(c) = "caffe"
                        THEN [as EXCEPT !["cur_version"].value = PyInt(1)]
                        ELSE as
         IN  UpdateLoop(a1, VerAttributes(level, a1["cur_version"].value.n), dict, 1)

update_attributes(as, c, vs, level, dict) ==
    IF IsAbstract(level) \/ Framework(c) \notin SupportedOps
    THEN UpdateLoop(as, Attributes(level), dict, 1)
    ELSE LET a1 == IF Framework(c) \in {"tflite", "tf"}
                   THEN [as EXCEPT !["cur_version"].value = as["opcode_version"].value]
                   ELSE IF Framework(c) = "caffe"
                        THEN [as EXCEPT !["cur_version"].value = PyInt(1)]
                        ELSE as
             cur == a1["cur_version"].value
             \* an undeclared opcode version gets the entries of the highest one
             patched == Framework(c) \in {"tflite", "tf"} /\ ~IsKey(cur, Range(vs))
             keys == Range(vs) \cup (IF patched /\ IsNum(cur) THEN {cur.n} ELSE {})
             schema == IF patched
                       THEN (IF vs # <<>> THEN VerAttributes(level, Max(Range(vs)))
                             ELSE <<>>)
                       ELSE VerAttributes(level, cur.n)
         IN  IF ~IsKey(cur, keys) THEN [attrs |-> a1, raised |-> "AssertionError"]
             ELSE UpdateLoop(a1, schema, dict, 1)

\* OnnxOp.max_ver
max_ver(vs) == Max(Range(vs))

\* OnnxOp.cal_ver: ver_list is the declaration order, mask the positions of
\* the versions <= opset_version, the result ver_list[mask[-1]]; None after
\* the ERROR log when the mask is empty.
cal_ver(vs, opset_version) ==
    IF IsKey(opset_version, Range(vs)) THEN opset_version
    ELSE LET mask == {i \in DOMAIN vs : vs[i] <= opset_version.n}
         IN  IF mask = {} THEN None ELSE PyInt(vs[Max(mask)])

\* Iteration order of _attr (insertion order of the entries the model uses).
AttrOrder ==
    <<"name", "data_format", "cur_version", "opset_version", "opcode_version",
      "method", "axis", "axes", "keepdims", "new_axis", "1", "2", "num_true",
      "crop_size", "extrapolation_value", "unbiased", "foo", "dtype", "Tidx",
      "activations", "negative_slope", "negative_slope_offset", "clip_min",
      "clip_max", "approximate", "alpha", "beta">>

\* Op.check_required on an instance of a concrete class.
RECURSIVE CheckLoop(_, _)
CheckLoop(as, i) ==
    IF i > Len(AttrOrder) THEN TRUE
    ELSE LET k == AttrOrder[i]
         IN  IF k \notin DOMAIN as \/ as[k].kind # "Attribute" THEN CheckLoop(as, i + 1)
             ELSE IF as[k].required /\ as[k].value = None THEN FALSE
             ELSE IF as[k].options # {} /\ ~PyIn(as[k].value, as[k].options) THEN FALSE
             ELSE CheckLoop(as, i + 1)

\* Faulty variant of check_required: the options of an Attribute are not looked at.
RECURSIVE CheckLoopRequiredOnly(_, _)
CheckLoopRequiredOnly(as, i) ==
    IF i > Len(AttrOrder) THEN TRUE
    ELSE LET k == AttrOrder[i]
         IN  IF k \notin DOMAIN as \/ as[k].kind # "Attribute"
             THEN CheckLoopRequiredOnly(as, i + 1)
             ELSE IF as[k].required /\ as[k].value = None THEN FALSE
             ELSE CheckLoopRequiredOnly(as, i + 1)

check_required_RequiredOnly(as) == CheckLoopRequiredOnly(as, 1)

check_required(as) == CheckLoop(as, 1)

(***************************************************************************)
(* Construction of an op, attribute assignment and check_required.         *)
(***************************************************************************)
EmptyDict == [x \in {} |-> None]

\* Declarations of versions in any order: a dict's keys are distinct.
VerOrders ==
    {s \in UNION {[1..n -> 1..MaxVer] : n \in 1..MaxVer} :
        \A i, j \in DOMAIN s : i # j => s[i] # s[j]}

DeclaredVersions(c) ==
    CASE c = "ReduceVariance" -> VerOrders
      [] c = "LiteReduce" -> {<<1, 2>>}
      [] c = "CaffeLayer" -> {<<1>>}
      [] c \in {"LiteLayer", "TfLayer"} -> {<<1, 2>>, <<2, 1>>, <<1>>}
      [] OTHER -> {<<>>}

\* Values a caller provides for a key, each of the key's declared type.
Provided(c) ==
    CASE c = "ReduceVariance" ->
            [opset_version |-> {PyInt(n) : n \in 0..(MaxVer + 1)},
             unbiased |-> {PyInt(1), PyInt(5)},
             keepdims |-> {PyInt(0)}]
      [] c = "CropAndResize" ->
            [method |-> {PyStr("NEAREST"), PyStr("CUBIC")},
             crop_size |-> {PyInts(<<2, 2>>)},
             data_format |-> {PyStr("NCHW"), PyStr("XYZ")}]
      [] c = "AccidentalHits" ->
            [num_true |-> {PyInt(2)}, name |-> {PyStr("hits")}]
      [] c = "LiteReduce" ->
            [opcode_version |-> {PyInt(1), PyInt(2), PyInt(3)},
             keepdims |-> {PyInt(0)}]
      [] c = "CaffeLayer" ->
            [cur_version |-> {PyInt(7)},
             data_format |-> {PyStr("NCHW"), PyStr("XYZ")}]
      [] c \in {"LiteLayer", "TfLayer"} ->
            [opcode_version |-> {PyInt(n) : n \in 0..MaxVer},
             alpha |-> {PyInt(5)}]
      [] c = "Gelu" ->
            [activations |-> {PyStr("RELU"), PyStr("GELU")},
             approximate |-> {PyStr("tanh"), PyStr("erf")}]

AttrDicts(c) ==
    UNION {{d \in [K -> UNION {Provided(c)[k] : k \in K}] :
                \A k \in K : d[k] \in Provided(c)[k]} :
           K \in SUBSET DOMAIN Provided(c)}

NoUpdate == [cls |-> "none", dict |-> EmptyDict, pre |-> EmptyDict,
             post |-> EmptyDict, raised |-> "none"]
NoSet == [key |-> "none", value |-> None, pre |-> EmptyDict, raised |-> "none"]

OpInit0 ==
    /\ cls \in Classes
    /\ vers \in DeclaredVersions(cls)
    /\ attr_dict \in AttrDicts(cls)
    /\ attrs = EmptyDict
    /\ pc = 1
    /\ built = "no"
    /\ raised = "none"
    /\ upd = NoUpdate
    /\ nsets = 0
    /\ lastset = NoSet
    /\ chk = "none"
    /\ oplog = {}

Level == Chain(cls)[pc]

\* The end of one __init__ body: the exception propagates to the caller of
\* the constructor, or the next body of the chain runs.
EndBody(newattrs, exc) ==
    /\ attrs' = newattrs
    /\ IF exc # "none"
       THEN /\ built' = "failed" /\ raised' = exc /\ pc' = 0
       ELSE /\ raised' = "none"
            /\ IF pc = Len(Chain(cls))
               THEN built' = "yes" /\ pc' = 0
               ELSE built' = "no" /\ pc' = pc + 1

Called(level, dict, r) ==
    [cls |-> level, dict |-> dict, pre |-> attrs, post |-> r.attrs, raised |-> r.raised]

\* __init__ of Op, OpHasAxis, OpHasMethod, CaffeOp:
\*     self.update_attributes(<class>, attr_dict)
BaseInit ==
    /\ built = "no"
    /\ Level \in {"Op", "OpHasAxis", "OpHasMethod", "CaffeOp"}
    /\ LET r == update_attributes(attrs, cls, vers, Level, attr_dict)
       IN  /\ upd' = Called(Level, attr_dict, r)
           /\ EndBody(r.attrs, r.raised)
    /\ UNCHANGED <<cls, vers, attr_dict, nsets, lastset, chk, oplog>>

\* The opcode_version property: the attribute's value, 1 without the attribute.
opcode_version(as) ==
    IF "opcode_version" \in DOMAIN as THEN as["opcode_version"].value ELSE PyInt(1)

\* The warnings TfliteOp.__init__ logs after update_attributes.
TfliteOpWarns_Never(as, vs) == {}

TfliteOpWarns(as, vs) ==
    IF ~IsKey(opcode_version(as), Range(vs)) THEN {"Opcode Version is not implemented"} ELSE {}

\* TfliteOp.__init__:
\*     self.update_attributes(TfliteOp, attr_dict)
\*     if self.opcode_version not in type(self).attributes(): WARN(...)
TfliteOpInit ==
    /\ built = "no"
    /\ Level = "TfliteOp"
    /\ LET r == update_attributes(attrs, cls, vers, Level, attr_dict)
       IN  /\ upd' = Called(Level, attr_dict, r)
           /\ oplog' = IF r.raised # "none" THEN oplog
                       ELSE oplog \cup TfliteOpWarns(r.attrs, vers)
           /\ EndBody(r.attrs, r.raised)
    /\ UNCHANGED <<cls, vers, attr_dict, nsets, lastset, chk>>

\* OnnxOp.__init__
OnnxOpInit ==
    /\ built = "no"
    /\ Level = "OnnxOp"
    /\ LET dict == IF "opset_version" \notin DOMAIN attr_dict
                   THEN Put(attr_dict, "opset_version", PyInt(max_ver(vers)))
                   ELSE attr_dict
           r == update_attributes(attrs, cls, vers, Level, dict)
       IN  /\ attr_dict' = dict
           /\ upd' = Called(Level, dict, r)
           /\ IF r.raised # "none" THEN EndBody(r.attrs, r.raised)
              ELSE EndBody([r.attrs EXCEPT !["cur_version"].value =
                                cal_ver(vers, r.attrs["opset_version"].value)],
                           "none")
    /\ UNCHANGED <<cls, vers, nsets, lastset, chk, oplog>>

\* BaseActivationOp.update_activation(attr_dict) for activations other than
\* LEAKYRELU, PRELU and CLIP, which set further attributes.
update_activation(as, dict) ==
    IF PyEq(as["activations"].value, PyStr("NONE"))
    THEN SetAttrOf(as, "activations",
                   IF "activations" \in DOMAIN dict THEN dict["activations"]
                   ELSE PyStr("NONE"))
    ELSE [attrs |-> as, raised |-> "none"]

\* BaseActivationOp.__init__:
\*     self.update_attributes(BaseActivationOp, attr_dict)
\*     self.update_activation(attr_dict)
BaseActivationOpInit ==
    /\ built = "no"
    /\ Level = "BaseActivationOp"
    /\ LET r == update_attributes(attrs, cls, vers, Level, attr_dict)
       IN  /\ upd' = Called(Level, attr_dict, r)
           /\ IF r.raised # "none" THEN EndBody(r.attrs, r.raised)
              ELSE EndBody(update_activation(r.attrs, attr_dict).attrs, "none")
    /\ UNCHANGED <<cls, vers, attr_dict, nsets, lastset, chk, oplog>>

\* What GeluOp.__init__ does after the assertion: self.activations = 'GELU'.
AfterAssert(as) == SetAttrOf(as, "activations", PyStr("GELU"))

\* GeluOp.__init__:
\*     self.update_attributes(GeluOp, attr_dict)
\*     assert self.check_required()
\*     self.activations = 'GELU'
GeluOpInit ==
    /\ built = "no"
    /\ Level = "Gelu"
    /\ LET r == update_attributes(attrs, cls, vers, Level, attr_dict)
       IN  /\ upd' = Called(Level, attr_dict, r)
           /\ IF r.raised # "none" THEN EndBody(r.attrs, r.raised)
              ELSE IF ~check_required(r.attrs) THEN EndBody(r.attrs, "AssertionError")
              ELSE EndBody(AfterAssert(r.attrs).attrs, "none")
    /\ UNCHANGED <<cls, vers, attr_dict, nsets, lastset, chk, oplog>>

\* __init__ of TfliteReduceOp, of TfOp and of the concrete classes:
\*     self.update_attributes(<class>, attr_dict)
\*     assert self.check_required()
CheckedInit ==
    /\ built = "no"
    /\ Level \in (Classes \ {"Gelu"}) \cup {"TfliteReduceOp", "TfOp"}
    /\ LET r == update_attributes(attrs, cls, vers, Level, attr_dict)
       IN  /\ upd' = Called(Level, attr_dict, r)
           /\ IF r.raised # "none" THEN EndBody(r.attrs, r.raised)
              ELSE IF ~check_required(r.attrs) THEN EndBody(r.attrs, "AssertionError")
              ELSE EndBody(r.attrs, "none")
    /\ UNCHANGED <<cls, vers, attr_dict, nsets, lastset, chk, oplog>>

SetKeys == {"data_format", "cur_version", "axes", "crop_size",
            "extrapolation_value", "unbiased", "method", "foo"}
SetValues == {None, PyInt(1), PyFloat(2), PyStr("1"), PyStr("12"), PyStr("abc"),
              PyStr("NCHW"), PyInts(<<1>>)}

\* op.key = value on a constructed op
SetAttr ==
    /\ built = "yes"
    /\ nsets < MaxSets
    /\ \E key \in SetKeys, value \in SetValues :
         LET r == SetAttrOf(attrs, key, value)
         IN  /\ attrs' = r.attrs
             /\ lastset' = [key |-> key, value |-> value, pre |-> attrs,
                            raised |-> r.raised]
    /\ nsets' = nsets + 1
    /\ chk' = "none"
    /\ UNCHANGED <<cls, vers, attr_dict, pc, built, raised, upd, oplog>>

\* op.check_required() on a constructed op
CheckRequired ==
    /\ built = "yes"
    /\ chk = "none"
    /\ chk' = IF check_required(attrs) THEN "True" ELSE "False"
    /\ UNCHANGED <<cls, vers, attr_dict, attrs, pc, built, raised, upd, nsets, lastset, oplog>>

(***************************************************************************)
(* The graph store, tensors and the writing of inferred outputs.           *)
(* A graph is a set of named nodes, each with the type of its op, and a    *)
(* set of edges (src, dst, key) carrying src_out_port, dst_in_port and an  *)
(* optional tensor.  Tensor data is a name ("None" for Python's None).     *)
(***************************************************************************)
\* The highest output port a consumer is wired to in a loaded graph.
MaxPort == 2
\* The longest list of output tensors handed to set_out_tensor.
MaxOut == 3
\* The number of operations applied to one loaded graph.
MaxCalls == 2

VARIABLES
    nodes,      \* node name -> type of the node's op
    edges,      \* the set of edges
    nout,       \* the number of outputs the multi-output node computes
    ncalls,     \* operations applied so far
    lastcall,   \* the last operation, its arguments and whether it raised inside
    prevcall,   \* the operation before it
    pre_nodes,  \* nodes before the last operation
    pre_edges   \* edges before the last operation

graphvars == <<nodes, edges, nout, ncalls, lastcall, prevcall, pre_nodes, pre_edges>>

\* Tensor(): no value, no shape, is_const False.
NoTensor == [present |-> FALSE, value |-> "None", shape |-> "None", is_const |-> FALSE]
ShapeOf(value) == IF value = "None" THEN "None" ELSE "shape(" \o value \o ")"
\* Tensor(value=value, is_const=is_const); a tensor built from a value is
\* taken to carry that value's shape.
Tensor(value, is_const) ==
    [present |-> TRUE, value |-> value, shape |-> ShapeOf(value), is_const |-> is_const]

OutEdges(E, n) == {e \in E : e.src = n}
InEdges(E, n) == {e \in E : e.dst = n}

\* Graph.add_edge(u, v, **attr): creates the nodes it names, gives the edge
\* the next free key between u and v, and stores the attributes passed.
add_edge(G, u, v, src_out_port, dst_in_port, tensor) ==
    LET used == {e.key : e \in {x \in G.edges : x.src = u /\ x.dst = v}}
        key == CHOOSE k \in 0..Cardinality(used) : k \notin used
        new(n) == IF n \in DOMAIN G.nodes THEN G.nodes[n] ELSE "None"
    IN  [nodes |-> [n \in DOMAIN G.nodes \cup {u, v} |-> new(n)],
         edges |-> G.edges \cup {[src |-> u, dst |-> v, key |-> key,
                                  src_out_port |-> src_out_port,
                                  dst_in_port |-> dst_in_port, tensor |-> tensor]}]

\* Faulty variant of replace_obj: the node is deleted and created again, which
\* drops the edges at it.
replace_obj_Recreate(G, name, type) ==
    [G EXCEPT !.nodes[name] = type,
              !.edges = {e \in G.edges : e.src # name /\ e.dst # name}]

\* NodeWrap(graph, name).replace_obj(type, attrs): the node's op becomes one
\* of the given type.
replace_obj(G, name, type) == [G EXCEPT !.nodes[name] = type]

\* get_valid_node_name(graph, base_name): base_name when no node has it, else
\* base_name with the first suffix that is free.
get_valid_node_name(G, base_name) ==
    IF base_name \notin DOMAIN G.nodes THEN base_name
    ELSE LET free == {k \in 1..(Cardinality(DOMAIN G.nodes) + 1) :
                        (base_name \o "_" \o ToString(k)) \notin DOMAIN G.nodes}
         IN  base_name \o "_" \o ToString(CHOOSE k \in free : \A j \in free : k <= j)

ConstLikeTypes == {"Dummy"}
OneOutPortTypes == {"Input", "Dummy", "InTopK", "Silu", "Out"}
MultipleOutPortsTypes == {"Meshgrid"}
VariableOutPortsTypes == {"Plugin"}

\* "True", "False", or "raise" when an input edge carries no tensor.
is_all_inputs_const(G, n) ==
    IF G.nodes[n] \in ConstLikeTypes THEN "True"
    ELSE IF \E e \in InEdges(G.edges, n) : ~e.tensor.present THEN "raise"
    ELSE IF InEdges(G.edges, n) # {} /\ \A e \in InEdges(G.edges, n) : e.tensor.is_const
         THEN "True" ELSE "False"

get_out_ports(G, n) == {e.src_out_port : e \in OutEdges(G.edges, n)}

\* The position of port p in the sorted list of ports: list.index(p).
IndexOf(ports, p) == Cardinality({q \in ports : q < p})

\* d['tensor'] after one output is written to an edge that has a tensor:
\* shape and is_const are refreshed only when guarded is false or t is set.
Rewrite(tensor, t, is_const, guarded) ==
    IF guarded /\ t = "None" THEN [tensor EXCEPT !.value = t]
    ELSE [tensor EXCEPT !.value = t, !.shape = ShapeOf(t), !.is_const = is_const]

Done(G) == [nodes |-> G.nodes, edges |-> G.edges, raised |-> FALSE]
Raised(G) == [nodes |-> G.nodes, edges |-> G.edges, raised |-> TRUE]

\* OpHasOneOutPort.set_out_tensor(tensor_data)
SetOutTensorOne(G, n, tensor_data) ==
    LET c == is_all_inputs_const(G, n)
        write(e) ==
            IF e.src # n THEN e
            ELSE IF e.tensor.present
                 THEN [e EXCEPT !.tensor = Rewrite(e.tensor, tensor_data, c = "True", TRUE)]
                 ELSE [e EXCEPT !.tensor = Tensor(tensor_data, FALSE)]
    IN  IF c = "raise" THEN Raised(G)
        ELSE Done([G EXCEPT !.edges = {write(e) : e \in G.edges}])

\* for i in range(len(tensor_data_list)): if i not in out_ports: a new Out
\* node on port i.
RECURSIVE AddSinks(_, _, _, _, _)
AddSinks(G, n, out_ports, len, i) ==
    IF i >= len THEN G
    ELSE IF i \in out_ports THEN AddSinks(G, n, out_ports, len, i + 1)
    ELSE LET out == get_valid_node_name(G, n \o "_out_port_" \o ToString(i))
             G1 == add_edge(G, n, out, i, 0, NoTensor)
         IN  AddSinks(replace_obj(G1, out, "Out"), n, out_ports, len, i + 1)

\* if len(tensor_data_list) > len(out_ports): add the sinks
WithSinks(G, n, len) ==
    IF len > Cardinality(get_out_ports(G, n))
    THEN AddSinks(G, n, get_out_ports(G, n), len, 0)
    ELSE G

\* OpHasMultipleOutPorts.set_out_tensor(tensor_data_list)
SetOutTensorMultiple(G, n, tensor_data_list) ==
    LET c == is_all_inputs_const(G, n)
        G1 == WithSinks(G, n, Len(tensor_data_list))
        write(e) ==
            IF e.src # n \/ e.src_out_port >= Len(tensor_data_list) THEN e
            ELSE LET t == tensor_data_list[e.src_out_port + 1]
                 IN  IF e.tensor.present
                     THEN [e EXCEPT !.tensor = Rewrite(e.tensor, t, c = "True", TRUE)]
                     ELSE [e EXCEPT !.tensor = Tensor(t, c = "True")]
    IN  IF c = "raise" THEN Raised(G)
        ELSE Done([G1 EXCEPT !.edges = {write(e) : e \in G1.edges}])

\* OpHasVariableOutPorts.set_out_tensor(tensor_data_list), every entry of
\* the list a value.  The edges are visited by ascending port, so an index
\* past the end of the list stops the writing after the edges before it.
SetOutTensorVariable(G, n, tensor_data_list) ==
    LET c == is_all_inputs_const(G, n)
        len == Len(tensor_data_list)
        G1 == IF len > 1 THEN WithSinks(G, n, len) ELSE G
        out_ports == get_out_ports(G1, n)
        index(e) == IF len > 1 THEN IndexOf(out_ports, e.src_out_port) ELSE 0
        write(e) ==
            IF e.src # n \/ index(e) >= len THEN e
            ELSE LET t == tensor_data_list[index(e) + 1]
                 IN  IF e.tensor.present
                     THEN [e EXCEPT !.tensor = Rewrite(e.tensor, t, c = "True", FALSE)]
                     ELSE [e EXCEPT !.tensor = Tensor(t, FALSE)]
        G2 == [G1 EXCEPT !.edges = {write(e) : e \in G1.edges}]
    IN  IF c = "raise" THEN Raised(G)
        ELSE IF \E e \in OutEdges(G1.edges, n) : index(e) >= len THEN Raised(G2)
        ELSE Done(G2)

\* The tensors an op computes for its outputs: output i is the value "t<i>".
Values(len) == [i \in 1..len |-> "t" \o ToString(i - 1)]

\* node.infer_shape() of one node: the op computes its outputs and writes
\* them with set_out_tensor; OutOp.infer_shape writes nothing.
InferNode(G, n, k) ==
    IF G.nodes[n] \in MultipleOutPortsTypes THEN SetOutTensorMultiple(G, n, Values(k))
    ELSE IF G.nodes[n] \in VariableOutPortsTypes THEN SetOutTensorVariable(G, n, Values(k))
    ELSE IF G.nodes[n] \in {"Out", "None"} THEN Done(G)
    ELSE SetOutTensorOne(G, n, "t0")

RECURSIVE Depth(_, _)
Depth(G, n) ==
    IF InEdges(G.edges, n) = {} THEN 0
    ELSE 1 + Max({Depth(G, e.src) : e \in InEdges(G.edges, n)})

\* Faulty variant of Escapes: only a KeyError is caught.
Escapes_KeyErrorOnly(r) == r.raised

\* Whether an exception raised inside set_out_tensor leaves it: the
\* handlers for KeyError and for Exception log a warning and return.
Escapes(r) == FALSE

\* PluginOp.infer_shape of node n: when the plugin's infer_shape raises, a
\* warning is logged and out_tensors stays []; set_out_tensor(out_tensors)
\* is called in both cases.  failing is the set of nodes whose plugin raises.
infer_shape(G, n, k, failing) ==
    IF G.nodes[n] \in VariableOutPortsTypes /\ n \in failing
    THEN SetOutTensorVariable(G, n, <<>>)
    ELSE InferNode(G, n, k)

\* The nodes of one depth write disjoint edges: any order gives one result.
\* R is the graph with the set of nodes a diagnostic was logged for; an
\* exception that leaves a node's infer_shape is logged by infer.
RECURSIVE InferSet(_, _, _, _)
InferSet(R, S, k, failing) ==
    IF S = {} THEN R
    ELSE LET n == CHOOSE x \in S : TRUE
             r == infer_shape([nodes |-> R.nodes, edges |-> R.edges], n, k, failing)
             logs == r.raised \/ Escapes(r) \/ n \in failing
         IN  InferSet([nodes |-> r.nodes, edges |-> r.edges,
                       warned |-> R.warned \cup (IF logs THEN {n} ELSE {})],
                      S \ {n}, k, failing)

RECURSIVE InferFrom(_, _, _, _, _)
InferFrom(R, G0, d, k, failing) ==
    LET S == {n \in DOMAIN G0.nodes : Depth(G0, n) = d}
    IN  IF S = {} THEN R ELSE InferFrom(InferSet(R, S, k, failing), G0, d + 1, k, failing)

\* infer(graph): every node's infer_shape, in topological order, with the
\* diagnostics logged on the way.
infer(G, k, failing) ==
    InferFrom([nodes |-> G.nodes, edges |-> G.edges, warned |-> {}], G, 0, k, failing)

Graph == [nodes |-> nodes, edges |-> edges]

Edge(u, v, src_out_port, dst_in_port, tensor) ==
    [src |-> u, dst |-> v, key |-> 0, src_out_port |-> src_out_port,
     dst_in_port |-> dst_in_port, tensor |-> tensor]

Consumer(p) == "Y" \o ToString(p)

\* A loaded graph: X and the constant D feed K, K feeds M, and the outputs
\* of M on the ports W are consumed; the loader gave every edge a Tensor()
\* or none.
LoadedNodes(xtype, mtype, W) ==
    [n \in {"X", "D", "K", "M"} \cup {Consumer(p) : p \in W} |->
        CASE n = "X" -> xtype
          [] n = "D" -> "Dummy"
          [] n = "K" -> "InTopK"
          [] n = "M" -> mtype
          [] OTHER -> "Silu"]

LoadedEdges(W, tensor) ==
    {Edge("X", "K", 0, 0, tensor), Edge("D", "K", 0, 1, tensor),
     Edge("K", "M", 0, 0, tensor)}
        \cup {Edge("M", Consumer(p), p, 0, tensor) : p \in W}

NoCall ==
    [op |-> "none", node |-> "", data |-> <<>>, raised |-> FALSE, escaped |-> FALSE,
     warned |-> {}]

GraphInit ==
    /\ \E xtype \in {"Input", "Dummy"},
          mtype \in MultipleOutPortsTypes \cup VariableOutPortsTypes,
          W \in SUBSET (0..MaxPort),
          tensor \in {NoTensor, Tensor("None", FALSE)} :
            /\ nodes = LoadedNodes(xtype, mtype, W)
            /\ edges = LoadedEdges(W, tensor)
    /\ nout \in 1..MaxOut
    /\ ncalls = 0
    /\ lastcall = NoCall
    /\ prevcall = NoCall
    /\ pre_nodes = nodes
    /\ pre_edges = edges

\* Loaded graphs whose first node may be a plugin op.
PluginGraphInit ==
    /\ \E xtype \in {"Input", "Plugin"},
          mtype \in MultipleOutPortsTypes \cup VariableOutPortsTypes,
          W \in {{0}, {0, 2}},
          tensor \in {NoTensor, Tensor("None", FALSE)} :
            /\ nodes = LoadedNodes(xtype, mtype, W)
            /\ edges = LoadedEdges(W, tensor)
    /\ nout \in 1..MaxOut
    /\ ncalls = 0
    /\ lastcall = NoCall
    /\ prevcall = NoCall
    /\ pre_nodes = nodes
    /\ pre_edges = edges

GraphIdle ==
    /\ nodes = LoadedNodes("Input", "Meshgrid", {})
    /\ edges = LoadedEdges({}, NoTensor)
    /\ nout = 1
    /\ ncalls = 0
    /\ lastcall = NoCall
    /\ prevcall = NoCall
    /\ pre_nodes = nodes
    /\ pre_edges = edges

Applied(r, op, n, data) ==
    /\ ncalls < MaxCalls
    /\ nodes' = r.nodes
    /\ edges' = r.edges
    /\ pre_nodes' = nodes
    /\ pre_edges' = edges
    /\ prevcall' = lastcall
    /\ lastcall' = [op |-> op, node |-> n, data |-> data, raised |-> r.raised,
                    escaped |-> Escapes(r), warned |-> r.warned]
    /\ ncalls' = ncalls + 1
    /\ UNCHANGED nout

\* A set_out_tensor call made on node n: the exception inside it, if any,
\* is logged for n.
Logged(r, n) ==
    [nodes |-> r.nodes, edges |-> r.edges, raised |-> r.raised,
     warned |-> IF r.raised THEN {n} ELSE {}]

\* Lists of output tensors: every output a value, or the first one None.
DataLists ==
    UNION {{Values(len), [Values(len) EXCEPT ![1] = "None"]} : len \in 1..MaxOut}

CallSetOutTensorOne ==
    \E n \in DOMAIN nodes, tensor_data \in {"None", "t0"} :
        /\ nodes[n] \in {"Input", "Dummy", "InTopK"}
        /\ Applied(Logged(SetOutTensorOne(Graph, n, tensor_data), n), "one", n, <<tensor_data>>)

CallSetOutTensorMultiple ==
    \E n \in DOMAIN nodes, tensor_data_list \in DataLists :
        /\ nodes[n] \in MultipleOutPortsTypes
        /\ Applied(Logged(SetOutTensorMultiple(Graph, n, tensor_data_list), n), "multiple", n,
                   tensor_data_list)

CallSetOutTensorVariable ==
    \E n \in DOMAIN nodes, len \in 0..MaxOut :
        /\ nodes[n] \in VariableOutPortsTypes
        /\ Applied(Logged(SetOutTensorVariable(Graph, n, Values(len)), n), "variable", n,
                   Values(len))

\* infer(graph), the plugins of the nodes in failing raising in infer_shape
Infer ==
    \E failing \in SUBSET {n \in DOMAIN nodes : nodes[n] \in VariableOutPortsTypes} :
        LET R == infer(Graph, nout, failing)
        IN  Applied([nodes |-> R.nodes, edges |-> R.edges, raised |-> FALSE,
                     warned |-> R.warned], "infer", "", <<failing>>)

(***************************************************************************)
(* univ_parser: the loading of the model and the stages run on its graph.  *)
(***************************************************************************)
VARIABLES
    params,     \* "none" (falsy params), "bad_path" or "ok"
    model_type, \* params['model_type']
    graph,      \* "unset", "none" (None or empty graph) or "loaded"
    callno,     \* the next entry of Calls to invoke
    ran,        \* the entries of Calls invoked so far
    failed,     \* the stages in which a call raised
    logged,     \* the stages whose handler logged the exception
    ret,        \* the local ret
    status      \* "running", "returned", or "raised": an exception left univ_parser

pipevars == <<params, model_type, graph, callno, ran, failed, logged, ret, status>>

Call(name, stage, try) == [name |-> name, stage |-> stage, try |-> try]

\* The calls made on a loaded graph, each with its stage and whether a
\* try statement encloses it.
Calls ==
    << Call("preprocess", "preprocess", TRUE),
       Call("convert_onnx_version", "convert_onnx_version", TRUE),
       Call("middle_passes", "middle_passes", TRUE),
       Call("infer", "first infer", FALSE),
       Call("transform_to_nhwc", "transform_to_nhwc", TRUE),
       Call("back_passes", "back_passes", TRUE),
       Call("gamut_preprocess", "gamut_preprocess", TRUE),
       Call("special_character_conversion", "special_character_conversion", TRUE),
       Call("infer", "final infer", TRUE),
       Call("remove_useless_op", "final infer", TRUE),
       Call("trim_weights", "serialize", TRUE),
       Call("serialize", "serialize", TRUE) >>

\* The calls that add, remove or rewrite nodes and edges of the graph.
GraphMutating ==
    {"preprocess", "convert_onnx_version", "middle_passes", "transform_to_nhwc",
     "back_passes", "gamut_preprocess", "special_character_conversion",
     "remove_useless_op"}

ModelTypes == {"onnx", "tflite", "caffe", "tf", "tensorflow", "torch", "other"}

PipeInit ==
    /\ params \in {"none", "bad_path", "ok"}
    /\ model_type \in ModelTypes
    /\ graph = "unset"
    /\ callno = 0
    /\ ran = {}
    /\ failed = {}
    /\ logged = {}
    /\ ret = TRUE
    /\ status = "running"

PipeIdle ==
    /\ params = "ok"
    /\ model_type = "onnx"
    /\ graph = "unset"
    /\ callno = 0
    /\ ran = {}
    /\ failed = {}
    /\ logged = {}
    /\ ret = TRUE
    /\ status = "returned"

\* if params: ... else: ERROR(...); ret = False
\* if is_file(model_path) ...: ... else: FATAL(...); ret = False
Rejected ==
    /\ status = "running" /\ graph = "unset" /\ params # "ok"
    /\ logged' = logged \cup {IF params = "none" THEN "params" ELSE "model file"}
    /\ ret' = FALSE
    /\ status' = "returned"
    /\ UNCHANGED <<params, model_type, graph, callno, ran, failed>>

\* The try around the loading of the model; a graph that is None or empty
\* goes to the else branch: WARN(...); ret = True
Loaded(g, msgs, r) ==
    /\ status = "running" /\ graph = "unset" /\ params = "ok"
    /\ graph' = g
    /\ logged' = logged \cup msgs \cup (IF g = "loaded" THEN {} ELSE {"empty graph"})
    /\ IF g = "loaded"
       THEN /\ ret' = r /\ status' = "running" /\ callno' = 1
       ELSE /\ ret' = TRUE /\ status' = "returned" /\ callno' = callno
    /\ UNCHANGED <<params, model_type, ran, failed>>

LoadGraph ==
    /\ model_type # "other"
    /\ \E g \in {"loaded", "none"}, msgs \in {{}, {"not connected"}} :
            /\ g = "none" => msgs = {}
            /\ Loaded(g, msgs, ret)

LoadUnsupported ==
    /\ model_type = "other"
    /\ Loaded("none", {"framework"}, ret)

LoadRaises ==
    /\ model_type # "other"
    /\ Loaded("none", {"processing models"}, FALSE)

\* The first entry of Calls after the try statement of entry i.
AfterTry(i) ==
    LET later == {j \in DOMAIN Calls : j > i /\ Calls[j].stage # Calls[i].stage}
    IN  IF later = {} THEN Len(Calls) + 1 ELSE CHOOSE j \in later : \A k \in later : j <= k

Goto(i) ==
    /\ callno' = i
    /\ status' = IF i > Len(Calls) THEN "returned" ELSE "running"

Invoking ==
    /\ status = "running" /\ graph = "loaded" /\ callno \in DOMAIN Calls
    /\ ran' = ran \cup {callno}
    /\ UNCHANGED <<params, model_type, graph, ret>>

StageReturns ==
    /\ Invoking
    /\ Goto(callno + 1)
    /\ UNCHANGED <<failed, logged>>

\* except Exception as e: WARN(...) or ERROR(...)
StageRaisesInTry ==
    /\ Invoking
    /\ Calls[callno].try
    /\ failed' = failed \cup {Calls[callno].stage}
    /\ logged' = logged \cup {Calls[callno].stage}
    /\ Goto(AfterTry(callno))

\* A call outside every try statement: the exception leaves univ_parser.
StageRaisesOutsideTry ==
    /\ Invoking
    /\ ~Calls[callno].try
    /\ failed' = failed \cup {Calls[callno].stage}
    /\ status' = "raised"
    /\ UNCHANGED <<callno, logged>>

(***************************************************************************)
(* Operations of the graph store and of the queries made on it, applied    *)
(* to a small graph: add_edge, remove_edge, remove_edges_from,             *)
(* replace_obj, sorted_in_edges, sorted_out_edges, get_input_tensors.      *)
(***************************************************************************)
\* The number of store operations applied to one graph.
MaxOps == 3

VARIABLES
    output_names,      \* graph._attr['output_names']
    pre_output_names,  \* output_names before the last operation
    result,            \* what the last query returned, what the last pass logged
    value_index,       \* the value_index attribute of the graph's TfMerge op
    rnn_obj            \* the attributes of the graph's TfGRU or TfLSTM op

storevars == <<output_names, pre_output_names, result, value_index, rnn_obj>>

\* The attributes of a Keras GRU/LSTM op that convert_gru_lstm reads.
RnnObj(return_sequences, return_state, input_rank, weights, use_bias) ==
    [return_sequences |-> return_sequences, return_state |-> return_state,
     input_rank |-> input_rank, weights |-> weights, use_bias |-> use_bias]
NoRnn == RnnObj(FALSE, FALSE, 0, 0, FALSE)

\* Graph.remove_edge(u, v, key=key); an absent edge is not an error.
remove_edge(G, u, v, key) ==
    [G EXCEPT !.edges = {e \in G.edges : ~(e.src = u /\ e.dst = v /\ e.key = key)}]

\* Graph.remove_edge(u, v) without a key removes one edge between u and v:
\* the one added last, which has the highest key.
remove_edge_any(G, u, v) ==
    LET between == {e \in G.edges : e.src = u /\ e.dst = v}
    IN  IF between = {} THEN G
        ELSE remove_edge(G, u, v, Max({e.key : e \in between}))

\* Graph.remove_edges_from(ebunch): removes the edges listed.
remove_edges_from(G, ebunch) == [G EXCEPT !.edges = G.edges \ ebunch]

\* (p1, k1) comes before (p2, k2) in ascending (port, key) order.
Before(p1, k1, p2, k2) == p1 < p2 \/ (p1 = p2 /\ k1 < k2)

RECURSIVE SortIn(_)
SortIn(S) ==
    IF S = {} THEN <<>>
    ELSE LET e == CHOOSE x \in S : \A y \in S :
                        ~Before(y.dst_in_port, y.key, x.dst_in_port, x.key)
         IN  <<e>> \o SortIn(S \ {e})

RECURSIVE SortOut(_)
SortOut(S) ==
    IF S = {} THEN <<>>
    ELSE LET e == CHOOSE x \in S : \A y \in S :
                        ~Before(y.src_out_port, y.key, x.src_out_port, x.key)
         IN  <<e>> \o SortOut(S \ {e})

\* Graph.sorted_in_edges(n) and Graph.sorted_out_edges(n): ascending by
\* (port, key).
sorted_in_edges(G, n) == SortIn(InEdges(G.edges, n))
sorted_out_edges(G, n) == SortOut(OutEdges(G.edges, n))

Reversed(s) == [i \in 1..Len(s) |-> s[Len(s) + 1 - i]]

\* Faulty variant of get_input_tensors: the edges are read last to first.
get_input_tensors_Reversed(G, n) ==
    LET s == Reversed(sorted_in_edges(G, n))
    IN  [i \in 1..Len(s) |-> IF s[i].tensor.present THEN s[i].tensor.value ELSE "None"]

\* Op.get_input_tensors
get_input_tensors(G, n) ==
    LET s == sorted_in_edges(G, n)
    IN  [i \in 1..Len(s) |-> IF s[i].tensor.present THEN s[i].tensor.value ELSE "None"]

RECURSIVE SetToSeq(_)
SetToSeq(S) ==
    IF S = {} THEN <<>>
    ELSE LET x == CHOOSE y \in S : TRUE IN <<x>> \o SetToSeq(S \ {x})

\* Faulty variant of single_node_matcher: a node with parallel in edges is
\* found once for each of them.
single_node_matcher_PerEdge(G, op_types) ==
    LET hits == {<<n, k>> \in (DOMAIN G.nodes) \X (1..(Cardinality(G.edges) + 1)) :
                    /\ G.nodes[n] \in op_types
                    /\ k <= Max({1, Cardinality(InEdges(G.edges, n))})}
        s == SetToSeq(hits)
    IN  [i \in 1..Len(s) |-> [target |-> s[i][1]]]

\* single_node_matcher(graph, op_type): one binding {'target': name} for
\* each node of that type.
single_node_matcher(G, op_types) ==
    SetToSeq({[target |-> n] : n \in {x \in DOMAIN G.nodes : G.nodes[x] \in op_types}})

\* A pattern node is (name, {'op': [...]}); a pattern edge is
\* (src, dst, {'src_out_port': .., 'dst_in_port': ..}), where AnyPort stands for
\* a port the pattern leaves out.
AnyPort == -1
PatternNode(name, op) == [name |-> name, op |-> op]
PatternEdge(src, dst, src_out_port, dst_in_port) ==
    [src |-> src, dst |-> dst, src_out_port |-> src_out_port, dst_in_port |-> dst_in_port]

\* An edge of the graph that the pattern edge pe allows under binding b.
Allowed(G, b, pe) ==
    {e \in G.edges :
        /\ e.src = b[pe.src] /\ e.dst = b[pe.dst]
        /\ pe.src_out_port \in {AnyPort, e.src_out_port}
        /\ pe.dst_in_port \in {AnyPort, e.dst_in_port}}

\* The bindings of the symbolic names to nodes under which every node
\* pattern and every edge pattern holds.
Bindings(G, pattern_nodes, pattern_edges) ==
    {b \in [{pn.name : pn \in pattern_nodes} -> DOMAIN G.nodes] :
        /\ \A pn \in pattern_nodes : G.nodes[b[pn.name]] \in pn.op
        /\ \A pe \in pattern_edges : Allowed(G, b, pe) # {}}

\* Faulty variant of matched_patterns: one entry for each edge between the
\* nodes of a binding.
matched_patterns_PerEdge(G, pattern_nodes, pattern_edges) ==
    LET pairs == {<<b, e>> \in Bindings(G, pattern_nodes, pattern_edges) \X G.edges :
                    \E pe \in pattern_edges : e.src = b[pe.src] /\ e.dst = b[pe.dst]}
        s == SetToSeq(pairs)
    IN  [i \in 1..Len(s) |-> s[i][1]]

\* matched_patterns(graph, nodes=[...], edges=[...]): the list of all
\* bindings.
matched_patterns(G, pattern_nodes, pattern_edges) ==
    SetToSeq(Bindings(G, pattern_nodes, pattern_edges))

StoreInit ==
    /\ nodes = [n \in {"Foo0", "Foo1", "Bar0"} |-> IF n = "Bar0" THEN "Bar" ELSE "Foo"]
    /\ edges = {}
    /\ output_names \in {<<>>, <<"Bar0">>, <<"Bar0", "Foo1">>}
    /\ nout = 1
    /\ ncalls = 0
    /\ lastcall = NoCall
    /\ prevcall = NoCall
    /\ pre_nodes = nodes
    /\ pre_edges = edges
    /\ pre_output_names = output_names
    /\ result = <<>>
    /\ value_index = None
    /\ rnn_obj = NoRnn

StoreIdle ==
    /\ output_names = <<>>
    /\ pre_output_names = <<>>
    /\ result = <<>>
    /\ value_index = None
    /\ rnn_obj = NoRnn

\* The effect of one store operation on graph and bookkeeping.
StoreApplied(G, names, op, n, data, res) ==
    /\ ncalls < MaxOps
    /\ nodes' = G.nodes
    /\ edges' = G.edges
    /\ output_names' = names
    /\ pre_nodes' = nodes
    /\ pre_edges' = edges
    /\ pre_output_names' = output_names
    /\ prevcall' = lastcall
    /\ lastcall' = [op |-> op, node |-> n, data |-> data, raised |-> FALSE,
                    escaped |-> FALSE, warned |-> {}]
    /\ result' = res
    /\ ncalls' = ncalls + 1
    /\ UNCHANGED <<nout, value_index, rnn_obj>>

\* graph.add_edge(u, v, **{'src_out_port': .., 'dst_in_port': .., 'tensor': ..})
AddEdge ==
    \E u \in {"Foo0", "Foo1"}, src_out_port \in {0, 1}, dst_in_port \in {0, 1},
       tensor \in {NoTensor, Tensor("v" \o ToString(ncalls), FALSE)} :
        StoreApplied(add_edge(Graph, u, "Bar0", src_out_port, dst_in_port, tensor),
                     output_names, "add_edge", u, <<"Bar0">>, <<>>)

\* graph.add_edge(u, v) to a node that does not exist yet
AddEdgeToNewNode ==
    StoreApplied(add_edge(Graph, "Foo0", "New0", 0, 0, NoTensor),
                 output_names, "add_edge", "Foo0", <<"New0">>, <<>>)

\* graph.remove_edge(u, v, key=k)
RemoveEdge ==
    \E e \in edges :
        StoreApplied(remove_edge(Graph, e.src, e.dst, e.key),
                     output_names, "remove_edge", e.src, <<e.dst>>, <<>>)

\* graph.remove_edge(u, v)
RemoveEdgeAny ==
    \E u \in {"Foo0", "Foo1"} :
        StoreApplied(remove_edge_any(Graph, u, "Bar0"),
                     output_names, "remove_edge", u, <<"Bar0">>, <<>>)

\* graph.remove_edges_from(graph.sorted_in_edges(n))
RemoveEdgesFrom ==
    \E n \in DOMAIN nodes :
        /\ InEdges(edges, n) # {}
        /\ StoreApplied(remove_edges_from(Graph, InEdges(edges, n)),
                        output_names, "remove_edges_from", n, <<>>, <<>>)

\* NodeWrap(graph, n).replace_obj(type, attr)
ReplaceObj ==
    \E n \in DOMAIN nodes, type \in {"Baz", "Out"} :
        StoreApplied(replace_obj(Graph, n, type),
                     output_names, "replace_obj", n, <<type>>, <<>>)

\* NodeWrap(graph, n)['object'].get_input_tensors()
GetInputTensors ==
    \E n \in {"Bar0"} :
        StoreApplied(Graph, output_names, "get_input_tensors", n, <<>>,
                     get_input_tensors(Graph, n))

\* matched_patterns(graph, nodes=[('x', {'op': ['Foo']}), ('y', {'op': ['Bar']})],
\*                  edges=[('x', 'y', {'src_out_port': .., 'dst_in_port': ..})])
MatchedPatterns ==
    \E src_out_port \in {AnyPort, 0}, dst_in_port \in {AnyPort, 0, 1} :
        StoreApplied(Graph, output_names, "matched_patterns", "",
                     <<src_out_port, dst_in_port>>,
                     matched_patterns(Graph,
                                      {PatternNode("x", {"Foo"}), PatternNode("y", {"Bar"})},
                                      {PatternEdge("x", "y", src_out_port, dst_in_port)}))

\* single_node_matcher(graph, op_type)
SingleNodeMatcher ==
    \E op_types \in {{"Foo"}, {"Bar"}, {"Foo", "Baz"}, {"TfGRU", "TfLSTM"}} :
        StoreApplied(Graph, output_names, "single_node_matcher", "",
                     <<op_types>>, single_node_matcher(Graph, op_types))

\* graph.sorted_in_edges(n)
SortedInEdges ==
    \E n \in {"Bar0"} :
        StoreApplied(Graph, output_names, "sorted_in_edges", n, <<>>,
                     sorted_in_edges(Graph, n))

\* graph.sorted_out_edges(n)
SortedOutEdges ==
    \E n \in {"Foo0"} :
        StoreApplied(Graph, output_names, "sorted_out_edges", n, <<>>,
                     sorted_out_edges(Graph, n))

(***************************************************************************)
(* The rewrite passes of front_end/tf/passes/front_passes.py that remove   *)
(* TfIdentityN, TfSwitch and TfMerge nodes.  A pass works on a record P of *)
(* the graph's nodes, edges and output_names, of the nodes it warned       *)
(* about, and of whether it matched and whether it raised.                 *)
(***************************************************************************)
\* The number of passes applied to one graph.
MaxPasses == 2

GraphOf(P) == [nodes |-> P.nodes, edges |-> P.edges]
\* Faulty variant of OnGraph: a node left without in edges is taken off
\* output_names.
OnGraph_PruneOutputs(P, G) ==
    [P EXCEPT !.nodes = G.nodes, !.edges = G.edges,
              !.output_names = SelectSeq(@, LAMBDA n : InEdges(G.edges, n) # {})]

\* The graph after a mutation of its nodes and edges; output_names is not
\* part of what add_edge, remove_edge and remove_edges_from change.
OnGraph(P, G) == [P EXCEPT !.nodes = G.nodes, !.edges = G.edges]
Entering(G, names) ==
    [nodes |-> G.nodes, edges |-> G.edges, output_names |-> names,
     warned |-> {}, matched |-> FALSE, raised |-> FALSE, made |-> <<>>, trace |-> <<>>]
\* WARN(...) followed by continue
Warn(P, n) == [P EXCEPT !.warned = @ \cup {n}]

\* list.index(x) counted from 1, list.remove(x), list.insert(index, x)
Index(names, x) == CHOOSE i \in 1..Len(names) : names[i] = x /\ \A j \in 1..(i - 1) : names[j] # x
RemoveFirst(names, x) ==
    LET i == Index(names, x)
    IN  SubSeq(names, 1, i - 1) \o SubSeq(names, i + 1, Len(names))
InsertAt(names, index, x) ==
    SubSeq(names, 1, index - 1) \o <<x>> \o SubSeq(names, index, Len(names))

\* The Out sinks fed by the nodes of kept only.
Sinks(P, kept) ==
    {n \in DOMAIN P.nodes :
        /\ P.nodes[n] = "Out"
        /\ InEdges(P.edges, n) # {}
        /\ \A e \in InEdges(P.edges, n) : e.src \in kept}

\* Faulty variant of clear_redundant_nodes: a declared output that feeds no
\* other declared output is deleted as well.
clear_redundant_nodes_DropIsolated(P) ==
    LET outs == Range(P.output_names)
        RECURSIVE Up(_)
        Up(S) == LET T == S \cup {e.src : e \in {x \in P.edges : x.dst \in S}}
                 IN  IF T = S THEN S ELSE Up(T)
        kept == {n \in Up(outs) \cap DOMAIN P.nodes :
                    \E e \in P.edges : e.src = n \/ e.dst = n}
        keep == kept \cup Sinks(P, kept)
    IN  [P EXCEPT !.nodes = [n \in keep |-> P.nodes[n]],
                  !.edges = {e \in P.edges : e.src \in keep /\ e.dst \in keep}]

\* clear_redundant_nodes(graph): deletes every node from which no declared
\* output can be reached; the declared outputs themselves stay, and so do the
\* Out sinks of the nodes that stay.
clear_redundant_nodes(P) ==
    LET outs == Range(P.output_names)
        RECURSIVE Up(_)
        Up(S) == LET T == S \cup {e.src : e \in {x \in P.edges : x.dst \in S}}
                 IN  IF T = S THEN S ELSE Up(T)
        kept == Up(outs) \cap DOMAIN P.nodes
        keep == kept \cup Sinks(P, kept)
    IN  [P EXCEPT !.nodes = [n \in keep |-> P.nodes[n]],
                  !.edges = {e \in P.edges : e.src \in keep /\ e.dst \in keep}]

\* if matched: clear_redundant_nodes(graph); an exception leaves the pass
\* before that.
Sweep(P) == IF P.matched /\ ~P.raised THEN clear_redundant_nodes(P) ELSE P

\* What a pass did, in order: the matches a matcher call returned, and each
\* match the loop took up, with the graph and output_names before and after.
Snapshot(P) == [nodes |-> P.nodes, edges |-> P.edges, output_names |-> P.output_names]
Collected(P, matches) ==
    [P EXCEPT !.trace = Append(@, [ev |-> "collect", node |-> "",
                                   found |-> {matches[k].target : k \in DOMAIN matches},
                                   rejected |-> FALSE,
                                   pre |-> Snapshot(P), post |-> Snapshot(P)])]
Examined(P, Q, n) ==
    [Q EXCEPT !.trace = Append(@, [ev |-> "match", node |-> n, found |-> {},
                                   rejected |-> n \in Q.warned \ P.warned,
                                   pre |-> Snapshot(P), post |-> Snapshot(Q)])]

\* matches = ...matcher(graph, ...); for m in matches: body(m); an exception
\* ends the loop.
RECURSIVE ForMatches(_, _, _, _)
ForMatches(body(_, _), P, matches, i) ==
    LET P0 == IF i = 1 THEN Collected(P, matches) ELSE P
    IN  IF i > Len(matches) \/ P0.raised THEN P0
        ELSE ForMatches(body, Examined(P0, body(P0, matches[i].target), matches[i].target),
                        matches, i + 1)

(* remove_identity_n *)
\* for _, dst, out_attr in out_edges: ... of remove_identity_n
RECURSIVE IdentityNOutputs(_, _, _, _, _)
IdentityNOutputs(G, identity_n, in_e, out_edges, j) ==
    IF j > Len(out_edges) THEN G
    ELSE LET out == out_edges[j]
             G1 == IF out.src_out_port = in_e.dst_in_port
                   THEN add_edge(remove_edge_any(G, identity_n, out.dst),
                                 in_e.src, out.dst, in_e.src_out_port,
                                 out.dst_in_port, in_e.tensor)
                   ELSE G
         IN  IdentityNOutputs(G1, identity_n, in_e, out_edges, j + 1)

\* for src, _, in_attr in in_edges: ... of remove_identity_n
RECURSIVE IdentityNInputs(_, _, _, _, _, _)
IdentityNInputs(G, identity_n, in_edges, out_ports, out_edges, i) ==
    IF i > Len(in_edges) THEN G
    ELSE LET in_e == in_edges[i]
             out_op_name == get_valid_node_name(
                 G, in_e.src \o "_out_" \o ToString(in_e.src_out_port))
             G1 == IF in_e.dst_in_port \in out_ports
                   THEN IdentityNOutputs(G, identity_n, in_e, out_edges, 1)
                   ELSE IF {e \in OutEdges(G.edges, in_e.src) :
                                e.src_out_port = in_e.src_out_port} = {}
                   THEN replace_obj(add_edge(G, in_e.src, out_op_name,
                                             in_e.src_out_port, 0, in_e.tensor),
                                    out_op_name, "Out")
                   ELSE G
         IN  IdentityNInputs(G1, identity_n, in_edges, out_ports, out_edges, i + 1)

\* identity_n_src: the sources of the in edges, each once, in edge order
RECURSIVE Sources(_, _)
Sources(in_edges, i) ==
    IF i = 0 THEN <<>>
    ELSE LET before == Sources(in_edges, i - 1)
         IN  IF in_edges[i].src \in Range(before) THEN before
             ELSE Append(before, in_edges[i].src)

\* for new_out in new_outs: insert at index the ones not listed yet
RECURSIVE InsertNew(_, _, _, _)
InsertNew(names, index, new_outs, i) ==
    IF i > Len(new_outs) THEN names
    ELSE IF new_outs[i] \in Range(names) THEN InsertNew(names, index, new_outs, i + 1)
    ELSE InsertNew(InsertAt(names, index, new_outs[i]), index + 1, new_outs, i + 1)

\* Faulty variant of remove_identity_n_at: the producers are put at the
\* front of output_names, not at the place of the IdentityN.
remove_identity_n_at_NamesInFront(P, identity_n) ==
    LET G == GraphOf(P)
        in_edges == sorted_in_edges(G, identity_n)
        out_ports == get_out_ports(G, identity_n)
        out_edges == sorted_out_edges(G, identity_n)
        G1 == IdentityNInputs(remove_edges_from(G, Range(in_edges)), identity_n,
                              in_edges, out_ports, out_edges, 1)
        names == IF identity_n \in Range(P.output_names)
                 THEN InsertNew(RemoveFirst(P.output_names, identity_n), 1,
                                Sources(in_edges, Len(in_edges)), 1)
                 ELSE P.output_names
    IN  IF P.nodes[identity_n] # "None" /\ Len(in_edges) >= 1
        THEN [OnGraph(P, G1) EXCEPT !.matched = TRUE, !.output_names = names]
        ELSE P

remove_identity_n_at(P, identity_n) ==
    LET G == GraphOf(P)
        in_edges == sorted_in_edges(G, identity_n)
        out_ports == get_out_ports(G, identity_n)
        out_edges == sorted_out_edges(G, identity_n)
        G1 == IdentityNInputs(remove_edges_from(G, Range(in_edges)), identity_n,
                              in_edges, out_ports, out_edges, 1)
        names == IF identity_n \in Range(P.output_names)
                 THEN InsertNew(RemoveFirst(P.output_names, identity_n),
                                Index(P.output_names, identity_n),
                                Sources(in_edges, Len(in_edges)), 1)
                 ELSE P.output_names
    IN  IF P.nodes[identity_n] # "None" /\ Len(in_edges) >= 1
        THEN [OnGraph(P, G1) EXCEPT !.matched = TRUE, !.output_names = names]
        ELSE P

remove_identity_n(P) ==
    Sweep(ForMatches(remove_identity_n_at, P,
                     single_node_matcher(GraphOf(P), {"TfIdentityN"}), 1))

(* remove_switch *)
\* `1 if condition else 0` on the value of the pred tensor
Truth(value) == value \notin {"None", "False"}

\* for _, dst, k, out_attr in switch_out_edges: ... of remove_switch
RECURSIVE SwitchOutputs(_, _, _, _, _, _)
SwitchOutputs(G, switch, data, valid_out_port, switch_out_edges, j) ==
    IF j > Len(switch_out_edges) THEN G
    ELSE LET out == switch_out_edges[j]
             G1 == remove_edge(G, switch, out.dst, out.key)
             G2 == IF out.src_out_port = valid_out_port
                   THEN add_edge(G1, data.src, out.dst, data.src_out_port,
                                 out.dst_in_port, data.tensor)
                   ELSE G1
         IN  SwitchOutputs(G2, switch, data, valid_out_port, switch_out_edges, j + 1)

\* Faulty variant of remove_switch_at: the ports are taken the other way
\* round, port 0 for a true predicate.
remove_switch_at_OtherPort(P, switch) ==
    LET G == GraphOf(P)
        switch_in_edges == sorted_in_edges(G, switch)
        data == switch_in_edges[1]
        pred == switch_in_edges[2]
        valid_out_port == IF Truth(pred.tensor.value) THEN 0 ELSE 1
        G1 == SwitchOutputs(G, switch, data, valid_out_port,
                            sorted_out_edges(G, switch), 1)
    IN  IF P.nodes[switch] = "None" \/ Len(switch_in_edges) # 2 THEN Warn(P, switch)
        ELSE IF ~pred.tensor.present \/ ~pred.tensor.is_const THEN Warn(P, switch)
        ELSE [OnGraph(P, remove_edges_from(G1, Range(switch_in_edges)))
                 EXCEPT !.matched = TRUE]

remove_switch_at(P, switch) ==
    LET G == GraphOf(P)
        switch_in_edges == sorted_in_edges(G, switch)
        data == switch_in_edges[1]
        pred == switch_in_edges[2]
        valid_out_port == IF Truth(pred.tensor.value) THEN 1 ELSE 0
        G1 == SwitchOutputs(G, switch, data, valid_out_port,
                            sorted_out_edges(G, switch), 1)
    IN  IF P.nodes[switch] = "None" \/ Len(switch_in_edges) # 2 THEN Warn(P, switch)
        ELSE IF ~pred.tensor.present \/ ~pred.tensor.is_const THEN Warn(P, switch)
        ELSE [OnGraph(P, remove_edges_from(G1, Range(switch_in_edges)))
                 EXCEPT !.matched = TRUE]

remove_switch(P) ==
    Sweep(ForMatches(remove_switch_at, P,
                     single_node_matcher(GraphOf(P), {"TfSwitch"}), 1))

(* remove_merge *)
\* for _, dst, out_attr in graph.sorted_out_edges(merge, data=True): ...
RECURSIVE MergeOutputs(_, _, _, _, _)
MergeOutputs(G, merge, in_e, out_edges, j) ==
    IF j > Len(out_edges) THEN G
    ELSE LET out == out_edges[j]
         IN  MergeOutputs(add_edge(remove_edge_any(G, merge, out.dst), in_e.src,
                                   out.dst, in_e.src_out_port, out.dst_in_port,
                                   in_e.tensor),
                          merge, in_e, out_edges, j + 1)

\* vi is merge_obj.value_index.  merge_in_edges[value_index] raises an
\* IndexError when value_index is the number of in edges.
remove_merge_on(vi, P, merge) ==
    LET G == GraphOf(P)
        merge_in_edges == sorted_in_edges(G, merge)
        in_e == merge_in_edges[vi.n + 1]
        G1 == MergeOutputs(G, merge, in_e, sorted_out_edges(G, merge), 1)
    IN  IF P.nodes[merge] = "None" \/ vi = None \/ Len(merge_in_edges) < vi.n
        THEN Warn(P, merge)
        ELSE IF vi.n >= Len(merge_in_edges)
        THEN [P EXCEPT !.matched = TRUE, !.raised = TRUE]
        ELSE [OnGraph(P, remove_edge_any(G1, in_e.src, merge)) EXCEPT !.matched = TRUE]

remove_merge(vi, P) ==
    LET remove_merge_at(Q, merge) == remove_merge_on(vi, Q, merge)
    IN  Sweep(ForMatches(remove_merge_at, P,
                         single_node_matcher(GraphOf(P), {"TfMerge"}), 1))

(* A graph for the passes: A and B feed T, T feeds C and D, C feeds E; B may
   feed C a constant as well. *)
PassKinds == {"TfIdentityN", "TfSwitch", "TfMerge"}

PassNodes(ttype, ctype, withD) ==
    [n \in {"A", "B", "T", "C", "E"} \cup (IF withD THEN {"D"} ELSE {}) |->
        CASE n = "T" -> ttype
          [] n = "C" -> ctype
          [] n \in {"A", "B"} -> "Foo"
          [] OTHER -> "Bar"]

PassEdges(second, c_port, d_port, c_second) ==
    {Edge("A", "T", 0, 0, Tensor("a", FALSE)), Edge("T", "C", c_port, 0, Tensor("t", FALSE)),
     Edge("C", "E", 0, 0, Tensor("c", FALSE))}
    \cup (IF second.present THEN {Edge("B", "T", 0, 1, second.tensor)} ELSE {})
    \cup (IF d_port >= 0 THEN {Edge("T", "D", d_port, 0, Tensor("t", FALSE))} ELSE {})
    \cup (IF c_second THEN {Edge("B", "C", 0, 1, Tensor("True", TRUE))} ELSE {})

PassInit ==
    \E ttype \in PassKinds, ctype \in {"Bar", "TfIdentityN", "TfSwitch"}, c_port \in {0, 1},
       d_port \in {-1, 0, 1}, c_second \in BOOLEAN,
       second \in {[present |-> FALSE, tensor |-> NoTensor]}
                  \cup {[present |-> TRUE, tensor |-> t] :
                            t \in {NoTensor, Tensor("True", TRUE), Tensor("False", TRUE),
                                   Tensor("b", FALSE)}} :
        /\ nodes = PassNodes(ttype, ctype, d_port >= 0)
        /\ edges = PassEdges(second, c_port, d_port, c_second)
        /\ output_names \in {<<"E">>, <<"T">>, <<"T", "A">>, <<"C", "T">>}
        /\ value_index \in (IF ttype = "TfMerge"
                            THEN {None, PyInt(0), PyInt(1), PyInt(2)} ELSE {None})
        /\ nout = 1
        /\ ncalls = 0
        /\ lastcall = NoCall
        /\ prevcall = NoCall
        /\ pre_nodes = nodes
        /\ pre_edges = edges
        /\ pre_output_names = output_names
        /\ result = <<>>
        /\ rnn_obj = NoRnn

\* The effect of one pass on graph and bookkeeping.
PassApplied(P, op) ==
    /\ ncalls < MaxPasses
    /\ nodes' = P.nodes
    /\ edges' = P.edges
    /\ output_names' = P.output_names
    /\ pre_nodes' = nodes
    /\ pre_edges' = edges
    /\ pre_output_names' = output_names
    /\ prevcall' = lastcall
    /\ lastcall' = [op |-> op, node |-> "", data |-> <<>>, raised |-> P.raised,
                    escaped |-> P.raised, warned |-> P.warned]
    /\ result' = [warned |-> P.warned, matched |-> P.matched, made |-> P.made,
                   trace |-> P.trace]
    /\ ncalls' = ncalls + 1
    /\ UNCHANGED <<nout, value_index, rnn_obj>>

RemoveIdentityN == PassApplied(remove_identity_n(Entering(Graph, output_names)), "remove_identity_n")
RemoveSwitch == PassApplied(remove_switch(Entering(Graph, output_names)), "remove_switch")
RemoveMerge == PassApplied(remove_merge(value_index, Entering(Graph, output_names)), "remove_merge")

(***************************************************************************)
(* convert_gru_lstm and convert_nms of front_passes.py: passes that put    *)
(* new producer nodes behind the outputs of the node they rewrite.         *)
(***************************************************************************)
\* insert_constant(graph, name, value, dst, in_port=in_port): a Constant node
\* feeding dst at in_port.
insert_constant(G, name, dst, in_port) ==
    replace_obj(add_edge(G, name, dst, 0, in_port, Tensor(name, TRUE)), name, "Constant")

\* for _, dst, out_attr in candidate edges: the consumer is fed by the
\* Reshape from port 0.
RECURSIVE MoveBehind(_, _, _, _, _)
MoveBehind(G, src, reshape, moved, j) ==
    IF j > Len(moved) THEN G
    ELSE MoveBehind(add_edge(remove_edge(G, src, moved[j].dst, moved[j].key),
                             reshape, moved[j].dst, 0, moved[j].dst_in_port,
                             moved[j].tensor),
                    src, reshape, moved, j + 1)

\* insert_reshape_after(graph, src, new_dim, old_dim, out_port=out_port): a
\* Reshape node named after src takes over the consumers of src's port
\* out_port and is fed from that port; the name of the node is returned.
insert_reshape_after(G, src, out_port) ==
    LET reshape == get_valid_node_name(G, src \o "_post_reshape")
        moved == SelectSeq(sorted_out_edges(G, src), LAMBDA e : e.src_out_port = out_port)
        tensor == IF Len(moved) = 0 THEN NoTensor ELSE moved[1].tensor
        G1 == MoveBehind(G, src, reshape, moved, 1)
    IN  [graph |-> replace_obj(add_edge(G1, src, reshape, out_port, 0, tensor),
                               reshape, "Reshape"),
         name |-> reshape]

\* insert_reshape(graph, src, dst, in_attr, dim, key): a Reshape node named
\* after src is put on the edge (src, dst, key); it feeds dst at the
\* dst_in_port of in_attr.
insert_reshape(G, src, dst, in_attr, key) ==
    LET reshape == get_valid_node_name(G, src \o "_post_reshape")
        G1 == add_edge(remove_edge(G, src, dst, key), src, reshape,
                       in_attr.src_out_port, 0, in_attr.tensor)
    IN  replace_obj(add_edge(G1, reshape, dst, 0, in_attr.dst_in_port, in_attr.tensor),
                    reshape, "Reshape")

\* A pass that got a Reshape node from insert_reshape_after for out_port.
Made(P, r, out_port) ==
    [OnGraph(P, r.graph) EXCEPT !.made = Append(@, [name |-> r.name, port |-> out_port])]

(* convert_gru_lstm *)
\* if not rnn_obj.return_sequences: the consumers of port 0 are fed from
\* port 1.
RECURSIVE StateOnly(_, _, _, _)
StateOnly(G, rnn, out_edges, j) ==
    IF j > Len(out_edges) THEN G
    ELSE LET out == out_edges[j]
             G1 == IF out.src_out_port = 0
                   THEN add_edge(remove_edge_any(G, rnn, out.dst), rnn, out.dst, 1,
                                 out.dst_in_port, out.tensor)
                   ELSE G
         IN  StateOnly(G1, rnn, out_edges, j + 1)

\* if rnn in graph._attr['output_names']: ... of convert_gru_lstm
RnnOutputNames(names, rnn, obj, rnn_type, Y, Y_h, Y_c) ==
    IF rnn \notin Range(names) THEN names
    ELSE LET index == Index(names, rnn)
         IN  IF obj.return_sequences /\ obj.return_state
             THEN LET n1 == InsertAt([names EXCEPT ![index] = Y], index, Y_h)
                  IN  IF rnn_type = "TfLSTM" THEN InsertAt(n1, index + 1, Y_c) ELSE n1
             ELSE IF ~obj.return_sequences
             THEN LET n1 == [names EXCEPT ![index] = Y_h]
                  IN  IF rnn_type = "TfLSTM" /\ obj.return_state
                      THEN InsertAt(n1, index, Y_c) ELSE n1
             ELSE [names EXCEPT ![index] = Y]

\* The body of the loop of convert_gru_lstm for the match rnn; obj stands for
\* rnn_obj: input_rank is the length of its first input shape (0 when there
\* is none), weights the length of weights_list.  A bias is taken to have
\* 3 or 6 times hidden_size elements.
convert_gru_lstm_at(obj, P, rnn) ==
    LET G == GraphOf(P)
        in_edges == sorted_in_edges(G, rnn)
        out_edges == sorted_out_edges(G, rnn)
        rnn_type == P.nodes[rnn]
        G1 == remove_edges_from(G, Range(Tail(in_edges)))
        G2 == insert_constant(G1, get_valid_node_name(G1, rnn \o "_W"), rnn, 1)
        G3 == insert_constant(G2, get_valid_node_name(G2, rnn \o "_R"), rnn, 2)
        G4 == IF obj.use_bias /\ obj.weights >= 3
              THEN insert_constant(G3, get_valid_node_name(G3, rnn \o "_B"), rnn, 3)
              ELSE G3
        G5 == IF ~obj.return_sequences THEN StateOnly(G4, rnn, out_edges, 1) ELSE G4
        Y == insert_reshape_after(G5, rnn, 0)
        P1 == Made(P, Y, 0)
        Y_h == insert_reshape_after(GraphOf(P1), rnn, 1)
        P2 == Made(P1, Y_h, 1)
        Y_c == insert_reshape_after(GraphOf(P2), rnn, 2)
        P3 == IF rnn_type = "TfLSTM" THEN Made(P2, Y_c, 2) ELSE P2
        names == RnnOutputNames(P.output_names, rnn, obj, rnn_type,
                                Y.name, Y_h.name, Y_c.name)
        dst_onnx_type == IF rnn_type = "TfGRU" THEN "GRU" ELSE "LSTM"
    IN  IF P.nodes[rnn] = "None" \/ obj.input_rank # 3 \/ Len(in_edges) < 1 \/ obj.weights < 2
        THEN Warn(P, rnn)
        ELSE [OnGraph(P3, replace_obj(GraphOf(P3), rnn, dst_onnx_type))
                 EXCEPT !.output_names = names]

\* extend_lists([single_node_matcher(graph, t) for t in ['TfGRU', 'TfLSTM']])
\* and the loop over the matches; the pass ends without a sweep.
convert_gru_lstm(obj, P) ==
    LET body(Q, rnn) == convert_gru_lstm_at(obj, Q, rnn)
    IN  ForMatches(body, P, single_node_matcher(GraphOf(P), {"TfGRU"})
                            \o single_node_matcher(GraphOf(P), {"TfLSTM"}), 1)

(* convert_nms *)
NmsTypes ==
    <<"TfNonMaxSuppressionV3", "TfNonMaxSuppressionV4", "TfNonMaxSuppressionV5",
      "LiteNON_MAX_SUPPRESSION_V4", "LiteNON_MAX_SUPPRESSION_V5">>

nms_output_num_dict(nms_type) ==
    CASE nms_type = "TfNonMaxSuppressionV3" -> 1
      [] nms_type \in {"TfNonMaxSuppressionV4", "LiteNON_MAX_SUPPRESSION_V4"} -> 2
      [] OTHER -> 3

\* for idx, in_edge in enumerate(in_edges[:2]): insert_reshape(...): boxes
\* stay on input 0; in_edges[1][3]['dst_in_port'] = 3 was done before, so
\* scores move to input 3.
NmsInputs(G, nms, in_edges) ==
    LET boxes == in_edges[1]
        scores == [in_edges[2] EXCEPT !.dst_in_port = 3]
        moved == (G.edges \ {in_edges[2]}) \cup {scores}
        G1 == insert_reshape([G EXCEPT !.edges = moved], boxes.src, nms, boxes, boxes.key)
    IN  insert_reshape(G1, scores.src, nms, scores, scores.key)

\* for idx in range(nms_output_num_dict[nms_type]): a Reshape node behind
\* every output port that has a consumer.
RECURSIVE NmsReshapes(_, _, _, _, _)
NmsReshapes(P, nms, out_edges, num, idx) ==
    IF idx >= num THEN P
    ELSE IF \E j \in 1..Len(out_edges) : out_edges[j].src_out_port = idx
         THEN NmsReshapes(Made(P, insert_reshape_after(GraphOf(P), nms, idx), idx),
                          nms, out_edges, num, idx + 1)
         ELSE NmsReshapes(P, nms, out_edges, num, idx + 1)

\* for _, dst, out_attr in out_edges: if out_attr['src_out_port'] == from:
\*     graph.add_edge(nms, dst, **{'src_out_port': to})
RECURSIVE Renumber(_, _, _, _, _, _)
Renumber(G, nms, out_edges, from, to, j) ==
    IF j > Len(out_edges) THEN G
    ELSE Renumber(IF out_edges[j].src_out_port = from
                  THEN add_edge(G, nms, out_edges[j].dst, to, 0, NoTensor)
                  ELSE G,
                  nms, out_edges, from, to, j + 1)

\* graph.add_edge(nms, name, **{'src_out_port': port}) and
\* NodeWrap(graph, name).replace_obj('Out', {'name': name})
NmsSink(G, nms, name, port) == replace_obj(add_edge(G, nms, name, port, 0, NoTensor), name, "Out")

\* The outputs of the node after the Reshape nodes are in: COMPASS order
\* nms_boxes, nms_box_num_per_class, nms_scores, nms_indices.
NmsOutputs(G, nms, nms_type) ==
    LET out_edges == sorted_out_edges(G, nms)
        G0 == remove_edges_from(G, Range(out_edges))
        out_boxes == get_valid_node_name(G0, nms \o "_boxes")
        out_box_num_per_class == get_valid_node_name(G0, nms \o "_box_num_per_class")
        out_scores == get_valid_node_name(G0, nms \o "_scores")
        G1 == Renumber(G0, nms, out_edges, 0, 3, 1)
    IN  IF nms_type = "TfNonMaxSuppressionV3"
        THEN NmsSink(NmsSink(NmsSink(G1, nms, out_boxes, 0),
                             nms, out_box_num_per_class, 1), nms, out_scores, 2)
        ELSE IF nms_type \in {"TfNonMaxSuppressionV4", "LiteNON_MAX_SUPPRESSION_V4"}
        THEN NmsSink(NmsSink(Renumber(G1, nms, out_edges, 1, 1, 1), nms, out_boxes, 0),
                     nms, out_scores, 2)
        ELSE NmsSink(Renumber(Renumber(G1, nms, out_edges, 2, 1, 1),
                              nms, out_edges, 1, 2, 1),
                     nms, out_boxes, 0)

\* The body of the loop over the matches of one nms_type.  The input shapes
\* are read off the in edges, one for each.
convert_nms_at(P, nms) ==
    LET G == GraphOf(P)
        nms_type == P.nodes[nms]
        in_edges == sorted_in_edges(G, nms)
        out_edges == sorted_out_edges(G, nms)
        G1 == remove_edges_from(NmsInputs(G, nms, in_edges), Range(Tail(in_edges)))
        G2 == insert_constant(insert_constant(G1, "box_num_per_class", nms, 1),
                              "class_num", nms, 2)
        P1 == NmsReshapes(OnGraph(P, G2), nms, out_edges, nms_output_num_dict(nms_type), 0)
        new_outs == [i \in 1..Len(P1.made) - Len(P.made) |-> P1.made[Len(P.made) + i].name]
        G3 == NmsOutputs(GraphOf(P1), nms, nms_type)
        names == IF nms \in Range(P.output_names)
                 THEN InsertNew(RemoveFirst(P.output_names, nms),
                                Index(P.output_names, nms), new_outs, 1)
                 ELSE P.output_names
    IN  IF P.nodes[nms] = "None" \/ Len(in_edges) < 5
           \/ Cardinality(get_out_ports(G, nms)) > nms_output_num_dict(nms_type)
        THEN Warn(P, nms)
        ELSE [OnGraph(P1, replace_obj(G3, nms, "ArmNMS"))
                 EXCEPT !.matched = TRUE, !.output_names = names]

\* for nms_type in nms_output_num_dict.keys():
\*     matches = single_node_matcher(graph, nms_type); for m in matches: ...
RECURSIVE ForNmsTypes(_, _)
ForNmsTypes(P, t) ==
    IF t > Len(NmsTypes) THEN P
    ELSE ForNmsTypes(ForMatches(convert_nms_at, P,
                                single_node_matcher(GraphOf(P), {NmsTypes[t]}), 1),
                     t + 1)

convert_nms(P) == Sweep(ForNmsTypes(P, 1))

(* A graph for these passes: A and S feed T, the constant node K may feed T
   three more inputs, T feeds C and D from chosen ports, C feeds E. *)
RnnKinds == {"TfGRU", "TfLSTM"}
ConvertKinds ==
    RnnKinds \cup {"TfNonMaxSuppressionV3", "TfNonMaxSuppressionV4",
                   "TfNonMaxSuppressionV5", "LiteNON_MAX_SUPPRESSION_V4"}

ConvertNodes(ttype, ctype, withD, withK) ==
    [n \in {"A", "S", "T", "C", "E"} \cup (IF withD THEN {"D"} ELSE {})
           \cup (IF withK THEN {"K"} ELSE {}) |->
        CASE n = "T" -> ttype
          [] n = "C" -> ctype
          [] n = "K" -> "Constant"
          [] n \in {"A", "S"} -> "Foo"
          [] OTHER -> "Bar"]

ConvertEdges(c_port, d_port, withK) ==
    {Edge("A", "T", 0, 0, Tensor("a", FALSE)), Edge("S", "T", 0, 1, Tensor("s", FALSE)),
     Edge("T", "C", c_port, 0, Tensor("t", FALSE)), Edge("C", "E", 0, 0, Tensor("c", FALSE))}
    \cup (IF d_port >= 0 THEN {Edge("T", "D", d_port, 0, Tensor("t", FALSE))} ELSE {})
    \cup (IF withK
          THEN {[Edge("K", "T", 0, 2 + k, Tensor("k", TRUE)) EXCEPT !.key = k] : k \in 0..2}
          ELSE {})

ConvertInit ==
    \E ttype \in ConvertKinds, ctype \in {"Bar", "TfGRU", "TfNonMaxSuppressionV4"},
       c_port \in 0..2, d_port \in -1..2, withK \in BOOLEAN :
        /\ nodes = ConvertNodes(ttype, ctype, d_port >= 0, withK)
        /\ edges = ConvertEdges(c_port, d_port, withK)
        /\ output_names \in {<<"T">>, <<"C", "T">>, <<"T", "E">>, <<"E">>}
        /\ rnn_obj \in (IF ttype \in RnnKinds \/ ctype \in RnnKinds
                        THEN {RnnObj(rs, st, w[1], w[2], w[3]) :
                                 rs \in BOOLEAN, st \in BOOLEAN,
                                 w \in {<<3, 3, TRUE>>, <<3, 2, FALSE>>,
                                        <<2, 3, TRUE>>, <<3, 1, TRUE>>}}
                        ELSE {NoRnn})
        /\ value_index = None
        /\ nout = 1
        /\ ncalls = 0
        /\ lastcall = NoCall
        /\ prevcall = NoCall
        /\ pre_nodes = nodes
        /\ pre_edges = edges
        /\ pre_output_names = output_names
        /\ result = <<>>

ConvertGruLstm ==
    PassApplied(convert_gru_lstm(rnn_obj, Entering(Graph, output_names)), "convert_gru_lstm")
ConvertNms == PassApplied(convert_nms(Entering(Graph, output_names)), "convert_nms")

(***************************************************************************)
(* OpHasPaddingStrides.cal_pads, a static method: its arguments are drawn  *)
(* when the call is made and its result is kept.  Shapes, strides, kernel  *)
(* shape, dilations and output padding are lists with one entry for each   *)
(* spatial dimension; <<>> stands for an argument that is None or empty.   *)
(***************************************************************************)
\* The largest input size and kernel size of a call.
MaxSize == 3

VARIABLES
    pad_args,    \* the arguments of the call of cal_pads
    pad_result   \* the list it returned, <<>> before the call

padvars == <<pad_args, pad_result>>

Abs(x) == IF x < 0 THEN -x ELSE x
\* np.sign
Sign(x) == IF x < 0 THEN -1 ELSE IF x > 0 THEN 1 ELSE 0

\* pads of cal_pads before it is split: one entry for each dimension.
TotalPads(in_shape, out_shape, strides, kernel_shape, dilations, is_transpose, zero_minimum, out_padding) ==
    LET n == Len(in_shape)
        dil == IF dilations = <<>> THEN [i \in 1..n |-> 1] ELSE dilations
        opad == IF out_padding = <<>> THEN [i \in 1..n |-> 0] ELSE out_padding
        ins == IF is_transpose THEN out_shape ELSE in_shape
        outs == IF is_transpose THEN in_shape ELSE out_shape
        pads == [i \in 1..n |->
                    (outs[i] - 1) * strides[i] + opad[i]
                    + (kernel_shape[i] - 1) * dil[i] + 1 - ins[i]]
    IN  IF zero_minimum THEN [i \in 1..n |-> IF pads[i] < 0 THEN 0 ELSE pads[i]]
        ELSE pads

\* Faulty variant of cal_pads: the halves are given to head and tail the
\* same way whatever auto_pad is.
cal_pads_AlwaysUpper(in_shape, out_shape, strides, kernel_shape, auto_pad, dilations, is_transpose, zero_minimum, out_padding) ==
    LET pads == TotalPads(in_shape, out_shape, strides, kernel_shape, dilations,
                          is_transpose, zero_minimum, out_padding)
        half == [i \in 1..Len(pads) |-> (Abs(pads[i]) \div 2) * Sign(pads[i])]
        rest == [i \in 1..Len(pads) |-> pads[i] - half[i]]
    IN  half \o rest

\* OpHasPaddingStrides.cal_pads
cal_pads(in_shape, out_shape, strides, kernel_shape, auto_pad, dilations, is_transpose, zero_minimum, out_padding) ==
    LET pads == TotalPads(in_shape, out_shape, strides, kernel_shape, dilations,
                          is_transpose, zero_minimum, out_padding)
        half == [i \in 1..Len(pads) |-> (Abs(pads[i]) \div 2) * Sign(pads[i])]
        rest == [i \in 1..Len(pads) |-> pads[i] - half[i]]
    IN  IF auto_pad = "SAME_UPPER" THEN half \o rest ELSE rest \o half

\* The arguments of one dimension.
DimArgs ==
    [in : 1..MaxSize, out : 1..(2 * MaxSize), stride : {1, 2}, kernel : 1..MaxSize,
     dilation : {0, 1, 2}, out_padding : {-1, 0, 1}]

\* A second dimension for the calls with two.
SecondDims ==
    {[in |-> 2, out |-> 2, stride |-> 1, kernel |-> 1, dilation |-> 1, out_padding |-> 0],
     [in |-> 1, out |-> 6, stride |-> 2, kernel |-> 2, dilation |-> 2, out_padding |-> 1]}

\* dilations and out_padding are given for every dimension or not at all:
\* a dilation of 0 and an output padding of -1 in the first dimension stand
\* for the argument left out.
ArgsOf(dims, auto_pad, is_transpose, zero_minimum) ==
    [in_shape |-> [i \in 1..Len(dims) |-> dims[i].in],
     out_shape |-> [i \in 1..Len(dims) |-> dims[i].out],
     strides |-> [i \in 1..Len(dims) |-> dims[i].stride],
     kernel_shape |-> [i \in 1..Len(dims) |-> dims[i].kernel],
     dilations |-> IF dims[1].dilation = 0 THEN <<>>
                   ELSE [i \in 1..Len(dims) |-> dims[i].dilation],
     out_padding |-> IF dims[1].out_padding = -1 THEN <<>>
                     ELSE [i \in 1..Len(dims) |-> dims[i].out_padding],
     auto_pad |-> auto_pad, is_transpose |-> is_transpose, zero_minimum |-> zero_minimum]

PadsInit ==
    /\ \E first \in DimArgs, auto_pad \in {"SAME_UPPER", "SAME_LOWER", "NOTSET"},
          is_transpose \in BOOLEAN, zero_minimum \in BOOLEAN :
          \E dims \in {<<first>>} \cup {<<first, second>> : second \in SecondDims} :
              pad_args = ArgsOf(dims, auto_pad, is_transpose, zero_minimum)
    /\ pad_result = <<>>

PadsIdle ==
    /\ pad_args = <<>>
    /\ pad_result = <<>>

\* pads = OpHasPaddingStrides.cal_pads(...)
CalPads ==
    /\ pad_result = <<>>
    /\ pad_result' = cal_pads(pad_args.in_shape, pad_args.out_shape, pad_args.strides,
                              pad_args.kernel_shape, pad_args.auto_pad, pad_args.dilations,
                              pad_args.is_transpose, pad_args.zero_minimum,
                              pad_args.out_padding)
    /\ UNCHANGED pad_args

(***************************************************************************)
(* The permutation helpers of Op and OpHasWeights: cal_inverse_perm, the   *)
(* layout conversions and the perm_* class methods.  One input is drawn    *)
(* when the run starts; a call is applied to it or to what the call before *)
(* returned.                                                               *)
(***************************************************************************)
\* The longest list handed to cal_inverse_perm.
MaxRank == 3
\* The largest dimension of a shape.
MaxDim == 2
\* The number of frames at which the interpreter raises RecursionError.
MaxDepth == 3

VARIABLES
    perm_arg,    \* the input drawn for the run
    perm_depth,  \* frames of the class-method call that is running, 0 when none is
    perm_last,   \* the last call that ended: function, class, argument, outcome
    perm_prev    \* the call that ended before it

permvars == <<perm_arg, perm_depth, perm_last, perm_prev>>

PermCall(fn, c, arg, value, exc) ==
    [fn |-> fn, cls |-> c, arg |-> arg, value |-> value, raised |-> exc]
NoPermCall == PermCall("none", "none", None, None, "none")

\* src_perm.index(i): the position of the first item equal to i, -1 standing
\* for the ValueError of an absent item.
ListIndex(l, i) ==
    IF \E j \in 1..Len(l) : l[j] = i
    THEN (CHOOSE j \in 1..Len(l) : l[j] = i /\ \A k \in 1..(j - 1) : l[k] # i) - 1
    ELSE -1

\* Faulty variant of cal_inverse_perm: the list is returned as it came.
cal_inverse_perm_Same(src_perm) ==
    IF src_perm = None \/ ~IsList(src_perm) \/ Len(src_perm.l) = 0
    THEN [value |-> None, raised |-> "none"]
    ELSE [value |-> src_perm, raised |-> "none"]

\* Op.cal_inverse_perm(src_perm)
cal_inverse_perm(src_perm) ==
    IF src_perm = None THEN [value |-> None, raised |-> "none"]
    ELSE IF IsList(src_perm)
    THEN IF Len(src_perm.l) = 0 THEN [value |-> None, raised |-> "none"]
         ELSE IF \E i \in 0..(Len(src_perm.l) - 1) : ListIndex(src_perm.l, i) = -1
         THEN [value |-> None, raised |-> "ValueError"]
         ELSE [value |-> PyInts([i \in 1..Len(src_perm.l) |-> ListIndex(src_perm.l, i - 1)]),
               raised |-> "none"]
    ELSE [value |-> None, raised |-> "none"]

\* in_shape[index].tolist() behind the assertion on the length of the shape
Reindexed(shape, index) ==
    IF ~IsList(shape) \/ Len(shape.l) # 4 THEN [value |-> None, raised |-> "AssertionError"]
    ELSE [value |-> PyInts([i \in 1..4 |-> shape.l[index[i] + 1]]), raised |-> "none"]

\* Op.shape_nchw_to_nhwc(shape) and Op.shape_nhwc_to_nchw(shape)
shape_nchw_to_nhwc(shape) == Reindexed(shape, <<0, 2, 3, 1>>)
shape_nhwc_to_nchw(shape) == Reindexed(shape, <<0, 3, 1, 2>>)

\* The classes the perm_* methods are called on: OpHasWeights and
\* BaseLinearOp, which overrides perm_lite_to_tf.
WeightClasses == {"OpHasWeights", "BaseLinearOp"}

perm_nchw_to_nhwc == PyInts(<<0, 2, 3, 1>>)
perm_nhwc_to_nchw == cal_inverse_perm(perm_nchw_to_nhwc).value
perm_ncw_to_nwc == PyInts(<<0, 2, 1>>)
perm_nwc_to_ncw == cal_inverse_perm(perm_ncw_to_nwc).value
perm_lite_to_onnx(c) == None
perm_onnx_to_lite(c) == cal_inverse_perm(perm_lite_to_onnx(c)).value
perm_lite_to_tf(c) == IF c = "BaseLinearOp" THEN PyInts(<<1, 0>>) ELSE None

\* The class methods that return without calling themselves.
PermMethods ==
    {"perm_nchw_to_nhwc", "perm_nhwc_to_nchw", "perm_ncw_to_nwc", "perm_nwc_to_ncw",
     "perm_lite_to_onnx", "perm_onnx_to_lite", "perm_lite_to_tf"}

PermMethod(fn, c) ==
    CASE fn = "perm_nchw_to_nhwc" -> perm_nchw_to_nhwc
      [] fn = "perm_nhwc_to_nchw" -> perm_nhwc_to_nchw
      [] fn = "perm_ncw_to_nwc" -> perm_ncw_to_nwc
      [] fn = "perm_nwc_to_ncw" -> perm_nwc_to_ncw
      [] fn = "perm_lite_to_onnx" -> perm_lite_to_onnx(c)
      [] fn = "perm_onnx_to_lite" -> perm_onnx_to_lite(c)
      [] OTHER -> perm_lite_to_tf(c)

\* The lists of length n over 0..n-1, permutations and others, None, the
\* empty list, and the shapes of four and of three dimensions.
PermInputs ==
    {None, PyInts(<<>>)}
    \cup UNION {{PyInts(l) : l \in [1..n -> 0..(n - 1)]} : n \in 1..MaxRank}
    \cup {PyInts(s) : s \in [1..4 -> 1..MaxDim]}
    \cup {PyInts(<<1, 2, 3>>)}

PermInit ==
    /\ perm_arg \in PermInputs
    /\ perm_depth = 0
    /\ perm_last = NoPermCall
    /\ perm_prev = NoPermCall

PermIdle ==
    /\ perm_arg = None
    /\ perm_depth = 0
    /\ perm_last = NoPermCall
    /\ perm_prev = NoPermCall

\* One call that has ended.
PermEnded(fn, c, arg, r) ==
    /\ perm_last' = PermCall(fn, c, arg, r.value, r.raised)
    /\ perm_prev' = perm_last
    /\ perm_depth' = 0
    /\ UNCHANGED perm_arg

\* No call is running and at most one has ended: a run is two calls.
PermReady == perm_depth = 0 /\ perm_prev = NoPermCall

\* The values a call can be applied to.
PermArgs == {perm_arg} \cup (IF perm_last.raised = "none" /\ perm_last.fn # "none"
                             THEN {perm_last.value} ELSE {})

CalInversePerm ==
    /\ PermReady
    /\ \E x \in PermArgs : PermEnded("cal_inverse_perm", "Op", x, cal_inverse_perm(x))

ShapeNchwToNhwc ==
    /\ PermReady
    /\ \E x \in PermArgs : PermEnded("shape_nchw_to_nhwc", "Op", x, shape_nchw_to_nhwc(x))

ShapeNhwcToNchw ==
    /\ PermReady
    /\ \E x \in PermArgs : PermEnded("shape_nhwc_to_nchw", "Op", x, shape_nhwc_to_nchw(x))

\* cls.perm_...() for a method that returns
CallPermMethod ==
    /\ PermReady
    /\ \E fn \in PermMethods, c \in WeightClasses :
           PermEnded(fn, c, None, [value |-> PermMethod(fn, c), raised |-> "none"])

\* cls.perm_tf_to_lite(): the first frame; perm_last.cls keeps the class
\* while the call runs.
CallPermTfToLite ==
    /\ PermReady
    /\ \E c \in WeightClasses :
           /\ perm_last' = PermCall("running", c, None, None, "none")
           /\ perm_prev' = perm_last
    /\ perm_depth' = 1
    /\ UNCHANGED perm_arg

\* The body of perm_tf_to_lite: the argument of Op.cal_inverse_perm is
\* cls.perm_tf_to_lite(), one more frame of the same method.
PermTfToLiteBody ==
    /\ perm_depth >= 1 /\ perm_depth < MaxDepth
    /\ perm_depth' = perm_depth + 1
    /\ UNCHANGED <<perm_arg, perm_last, perm_prev>>

\* The interpreter's limit is reached: RecursionError leaves every frame.
PermTfToLiteOverflow ==
    /\ perm_depth = MaxDepth
    /\ perm_last' = PermCall("perm_tf_to_lite", perm_last.cls, None, None, "RecursionError")
    /\ perm_depth' = 0
    /\ UNCHANGED <<perm_arg, perm_prev>>

(***************************************************************************)
(* The specifications: one for each part of the program.  The variables    *)
(* of the parts a specification does not run stay at an idle value.        *)
(***************************************************************************)
vars == <<opvars, graphvars, pipevars, storevars, padvars, permvars>>

OpIdle ==
    /\ cls = "AccidentalHits"
    /\ vers = <<>>
    /\ attr_dict = EmptyDict
    /\ attrs = EmptyDict
    /\ pc = 0
    /\ built = "failed"
    /\ raised = "none"
    /\ upd = NoUpdate
    /\ nsets = 0
    /\ lastset = NoSet
    /\ chk = "none"
    /\ oplog = {}

\* Construction and use of one op.
Init == OpInit0 /\ GraphIdle /\ PipeIdle /\ StoreIdle /\ PadsIdle /\ PermIdle
Next ==
    \/ BaseInit /\ UNCHANGED <<graphvars, pipevars, storevars, padvars, permvars>>
    \/ TfliteOpInit /\ UNCHANGED <<graphvars, pipevars, storevars, padvars, permvars>>
    \/ OnnxOpInit /\ UNCHANGED <<graphvars, pipevars, storevars, padvars, permvars>>
    \/ BaseActivationOpInit /\ UNCHANGED <<graphvars, pipevars, storevars, padvars, permvars>>
    \/ GeluOpInit /\ UNCHANGED <<graphvars, pipevars, storevars, padvars, permvars>>
    \/ CheckedInit /\ UNCHANGED <<graphvars, pipevars, storevars, padvars, permvars>>
    \/ SetAttr /\ UNCHANGED <<graphvars, pipevars, storevars, padvars, permvars>>
    \/ CheckRequired /\ UNCHANGED <<graphvars, pipevars, storevars, padvars, permvars>>
Spec == Init /\ [][Next]_vars

\* Inference over one loaded graph.
InitGraph == OpIdle /\ GraphInit /\ PipeIdle /\ StoreIdle /\ PadsIdle /\ PermIdle
NextGraph ==
    \/ CallSetOutTensorOne /\ UNCHANGED <<opvars, pipevars, storevars, padvars, permvars>>
    \/ CallSetOutTensorMultiple /\ UNCHANGED <<opvars, pipevars, storevars, padvars, permvars>>
    \/ CallSetOutTensorVariable /\ UNCHANGED <<opvars, pipevars, storevars, padvars, permvars>>
    \/ Infer /\ UNCHANGED <<opvars, pipevars, storevars, padvars, permvars>>
SpecGraph == InitGraph /\ [][NextGraph]_vars

\* Inference over a graph with plugin ops.
InitInfer == OpIdle /\ PluginGraphInit /\ PipeIdle /\ StoreIdle /\ PadsIdle /\ PermIdle
NextInfer ==
    \/ CallSetOutTensorOne /\ UNCHANGED <<opvars, pipevars, storevars, padvars, permvars>>
    \/ CallSetOutTensorMultiple /\ UNCHANGED <<opvars, pipevars, storevars, padvars, permvars>>
    \/ CallSetOutTensorVariable /\ UNCHANGED <<opvars, pipevars, storevars, padvars, permvars>>
    \/ Infer /\ UNCHANGED <<opvars, pipevars, storevars, padvars, permvars>>
SpecInfer == InitInfer /\ [][NextInfer]_vars

\* One run of univ_parser.
InitPipe == OpIdle /\ GraphIdle /\ PipeInit /\ StoreIdle /\ PadsIdle /\ PermIdle
NextPipe ==
    \/ Rejected /\ UNCHANGED <<opvars, graphvars, storevars, padvars, permvars>>
    \/ LoadGraph /\ UNCHANGED <<opvars, graphvars, storevars, padvars, permvars>>
    \/ LoadUnsupported /\ UNCHANGED <<opvars, graphvars, storevars, padvars, permvars>>
    \/ LoadRaises /\ UNCHANGED <<opvars, graphvars, storevars, padvars, permvars>>
    \/ StageReturns /\ UNCHANGED <<opvars, graphvars, storevars, padvars, permvars>>
    \/ StageRaisesInTry /\ UNCHANGED <<opvars, graphvars, storevars, padvars, permvars>>
    \/ StageRaisesOutsideTry /\ UNCHANGED <<opvars, graphvars, storevars, padvars, permvars>>
SpecPipe == InitPipe /\ [][NextPipe]_vars

\* Operations of the graph store on one graph.
InitStore == OpIdle /\ StoreInit /\ PipeIdle /\ PadsIdle /\ PermIdle
NextStore ==
    \/ AddEdge /\ UNCHANGED <<opvars, pipevars, padvars, permvars>>
    \/ AddEdgeToNewNode /\ UNCHANGED <<opvars, pipevars, padvars, permvars>>
    \/ RemoveEdge /\ UNCHANGED <<opvars, pipevars, padvars, permvars>>
    \/ RemoveEdgeAny /\ UNCHANGED <<opvars, pipevars, padvars, permvars>>
    \/ RemoveEdgesFrom /\ UNCHANGED <<opvars, pipevars, padvars, permvars>>
    \/ ReplaceObj /\ UNCHANGED <<opvars, pipevars, padvars, permvars>>
    \/ GetInputTensors /\ UNCHANGED <<opvars, pipevars, padvars, permvars>>
    \/ SortedInEdges /\ UNCHANGED <<opvars, pipevars, padvars, permvars>>
    \/ MatchedPatterns /\ UNCHANGED <<opvars, pipevars, padvars, permvars>>
    \/ SingleNodeMatcher /\ UNCHANGED <<opvars, pipevars, padvars, permvars>>
    \/ SortedOutEdges /\ UNCHANGED <<opvars, pipevars, padvars, permvars>>
SpecStore == InitStore /\ [][NextStore]_vars

\* Rewrite passes on one graph.
InitPass == OpIdle /\ PassInit /\ PipeIdle /\ PadsIdle /\ PermIdle
NextPass ==
    \/ RemoveIdentityN /\ UNCHANGED <<opvars, pipevars, padvars, permvars>>
    \/ RemoveSwitch /\ UNCHANGED <<opvars, pipevars, padvars, permvars>>
    \/ RemoveMerge /\ UNCHANGED <<opvars, pipevars, padvars, permvars>>
SpecPass == InitPass /\ [][NextPass]_vars

\* The passes convert_gru_lstm and convert_nms on one graph.
InitConvert == OpIdle /\ ConvertInit /\ PipeIdle /\ PadsIdle /\ PermIdle
NextConvert ==
    \/ ConvertGruLstm /\ UNCHANGED <<opvars, pipevars, padvars, permvars>>
    \/ ConvertNms /\ UNCHANGED <<opvars, pipevars, padvars, permvars>>
SpecConvert == InitConvert /\ [][NextConvert]_vars

\* Calls of the permutation helpers.
InitPerm == OpIdle /\ GraphIdle /\ PipeIdle /\ StoreIdle /\ PadsIdle /\ PermInit
NextPerm ==
    \/ CalInversePerm /\ UNCHANGED <<opvars, graphvars, pipevars, storevars, padvars>>
    \/ ShapeNchwToNhwc /\ UNCHANGED <<opvars, graphvars, pipevars, storevars, padvars>>
    \/ ShapeNhwcToNchw /\ UNCHANGED <<opvars, graphvars, pipevars, storevars, padvars>>
    \/ CallPermMethod /\ UNCHANGED <<opvars, graphvars, pipevars, storevars, padvars>>
    \/ CallPermTfToLite /\ UNCHANGED <<opvars, graphvars, pipevars, storevars, padvars>>
    \/ PermTfToLiteBody /\ UNCHANGED <<opvars, graphvars, pipevars, storevars, padvars>>
    \/ PermTfToLiteOverflow /\ UNCHANGED <<opvars, graphvars, pipevars, storevars, padvars>>
SpecPerm == InitPerm /\ [][NextPerm]_vars

\* Calls of cal_pads.
InitPads == OpIdle /\ GraphIdle /\ PipeIdle /\ StoreIdle /\ PadsInit /\ PermIdle
NextPads ==
    \/ CalPads /\ UNCHANGED <<opvars, graphvars, pipevars, storevars, permvars>>
SpecPads == InitPads /\ [][NextPads]_vars

(***************************************************************************)
(* Properties of the Op attribute model.                                   *)
(***************************************************************************)
IsAttribute(as, k) == k \in DOMAIN as /\ as[k].kind = "Attribute"

\* The attributes() entries the last update_attributes call walked: none when
\* the class is versioned and cur_version is none of its versions.
SchemaOfCall ==
    IF upd.cls = "none" THEN <<>>
    ELSE IF IsAbstract(upd.cls) \/ Framework(cls) \notin SupportedOps
         THEN Attributes(upd.cls)
    ELSE IF upd.raised = "AssertionError" THEN <<>>
    ELSE IF IsKey(upd.post["cur_version"].value, Range(vers))
         THEN VerAttributes(upd.cls, upd.post["cur_version"].value.n)
    ELSE VerAttributes(upd.cls, Max(Range(vers)))

\* C1: check_required() on a concrete op returns True if and only if every
\* Attribute marked required has a value other than None and every Attribute
\* with a non-empty options list has a value that is one of the options.
C1_CheckRequiredIff ==
    chk # "none" =>
        ((chk = "True") <=>
            \A k \in DOMAIN attrs :
                attrs[k].kind = "Attribute" =>
                    /\ attrs[k].required => attrs[k].value # None
                    /\ attrs[k].options # {} => PyIn(attrs[k].value, attrs[k].options))

\* check_required() has answered False on an op whose attribute was assigned
\* a value outside its options.
C1_Witness ==
    /\ chk = "False"
    /\ nsets > 0
    /\ IsAttribute(attrs, lastset.key)
    /\ attrs[lastset.key].options # {}

\* The versions of the class that do not exceed the requested opset.
Qualifying == {v \in Range(vers) : v <= attrs["opset_version"].value.n}

OnnxVersionChosen ==
    /\ Framework(cls) = "onnx"
    /\ "opset_version" \in DOMAIN attrs
    /\ nsets = 0

\* C2: construction of an ONNX op sets cur_version to the highest declared
\* version that is <= the requested opset, whatever the declaration order.
C2_HighestVersion ==
    (OnnxVersionChosen /\ Qualifying # {}) =>
        attrs["cur_version"].value = PyInt(Max(Qualifying))

OptionsAfter(k, p) ==
    IF "options" \in p.has THEN p.options
    ELSE IF k \in DOMAIN upd.pre THEN upd.pre[k].options ELSE {}

BadOption(i) ==
    LET k == SchemaOfCall[i][1]
    IN  /\ k \in DOMAIN upd.dict
        /\ OptionsAfter(k, SchemaOfCall[i][2]) # {}
        /\ ~PyIn(upd.dict[k], OptionsAfter(k, SchemaOfCall[i][2]))

DeclaredNames == Names(SchemaOfCall)

\* The value the claim gives an attribute the walked schema declares.
MergedValue(i) ==
    LET k == SchemaOfCall[i][1]
        p == SchemaOfCall[i][2]
    IN  IF k \in DOMAIN upd.dict THEN upd.dict[k]
        ELSE IF "default" \in p.has THEN p.default
        ELSE IF k \in DOMAIN upd.pre THEN upd.pre[k].value
        ELSE None

Returned == upd.cls # "none" /\ upd.raised = "none"

DeclaredMerged ==
    \A i \in DOMAIN SchemaOfCall :
        /\ SchemaOfCall[i][1] \in DOMAIN upd.post
        /\ upd.post[SchemaOfCall[i][1]].value = MergedValue(i)

\* The original statement of C5: after update_attributes(cls, attr_dict) every
\* declared attribute holds the provided value, else the default, else its old
\* value, and every attribute cls does not declare is unchanged.
C5_Original ==
    Returned =>
        /\ DeclaredMerged
        /\ \A k \in DOMAIN upd.pre \ DeclaredNames : upd.post[k] = upd.pre[k]
        /\ DOMAIN upd.post = DOMAIN upd.pre \cup DeclaredNames

\* cur_version as update_attributes(cls, ...) of a concrete versioned class
\* sets it before it walks the schema.
CurVersionSet ==
    IF IsAbstract(upd.cls) THEN upd.pre["cur_version"]
    ELSE IF Framework(cls) \in {"tflite", "tf"}
         THEN [upd.pre["cur_version"] EXCEPT !.value = upd.pre["opcode_version"].value]
    ELSE IF Framework(cls) = "caffe"
         THEN [upd.pre["cur_version"] EXCEPT !.value = PyInt(1)]
    ELSE upd.pre["cur_version"]

\* C5, amended: as C5_Original, except that cur_version, which cls does not
\* declare, is set to the op's opcode_version by a concrete TFLite/TF class and
\* to 1 by a concrete Caffe class.
C5_MergeExceptCurVersion ==
    Returned =>
        /\ DeclaredMerged
        /\ \A k \in DOMAIN upd.pre \ (DeclaredNames \cup {"cur_version"}) :
                upd.post[k] = upd.pre[k]
        /\ ("cur_version" \in DOMAIN upd.pre /\ "cur_version" \notin DeclaredNames) =>
                upd.post["cur_version"] = CurVersionSet
        /\ DOMAIN upd.post = DOMAIN upd.pre \cup DeclaredNames

\* A call on a later class of the hierarchy that re-declares, with another
\* default, an attribute whose value was provided, and leaves others alone.
C5_Witness ==
    /\ Returned
    /\ \E i, j \in DOMAIN SchemaOfCall :
          /\ SchemaOfCall[i][1] \in DOMAIN upd.dict
          /\ "default" \in SchemaOfCall[i][2].has
          /\ SchemaOfCall[i][1] \in DOMAIN upd.pre
          /\ SchemaOfCall[i][2].default # upd.dict[SchemaOfCall[i][1]]
          /\ SchemaOfCall[j][1] \notin DOMAIN upd.dict
    /\ DOMAIN upd.pre \ DeclaredNames # {}

\* C9: assigning a schema-declared attribute a value that cannot be coerced to
\* its type raises an attribute error and does not store the value.
C9_CoercionFailureSurfaces ==
    (/\ lastset.key # "none"
     /\ IsAttribute(lastset.pre, lastset.key)
     /\ ~Coerce(lastset.pre[lastset.key].type, lastset.value).ok)
    => /\ lastset.raised = "AttributeError"
       /\ attrs[lastset.key] = lastset.pre[lastset.key]

(***************************************************************************)
(* Properties of inference over the graph.                                 *)
(***************************************************************************)
\* The rule of constant propagation for the outputs of node n.
ExpectedConst(n) ==
    \/ nodes[n] \in ConstLikeTypes
    \/ /\ InEdges(edges, n) # {}
       /\ \A e \in InEdges(edges, n) : e.tensor.present /\ e.tensor.is_const

\* The last operation was a set_out_tensor that ended without an exception
\* and gave every outgoing edge of the node one of the values it was handed.
OutputsWritten ==
    /\ lastcall.op \in {"one", "multiple", "variable"}
    /\ ~lastcall.raised
    /\ \A i \in DOMAIN lastcall.data : lastcall.data[i] # "None"
    /\ \A e \in OutEdges(edges, lastcall.node) :
            e.tensor.present /\ e.tensor.value \in Range(lastcall.data)

\* C6: after set_out_tensor has written a node's outputs, the tensor of
\* every outgoing edge is const exactly when the node is const-like or has
\* at least one input edge and every input tensor is const.
C6_IsConstRule ==
    OutputsWritten =>
        \A e \in OutEdges(edges, lastcall.node) :
            e.tensor.is_const = ExpectedConst(lastcall.node)

EdgeId(e) == <<e.src, e.dst, e.key, e.src_out_port, e.dst_in_port>>
NewEdges == {e \in edges : EdgeId(e) \notin {EdgeId(x) : x \in pre_edges}}
WiredBefore(n) == {e.src_out_port : e \in OutEdges(pre_edges, n)}

\* C7: after set_out_tensor with n >= 2 tensors on a multiple-output or
\* variable-output node, every port 0..n-1 has an outgoing edge whatever
\* ports were wired before; each port that had no consumer got exactly one
\* new edge, to input 0 of a new node of type Out; no edge that existed
\* before was removed or moved to another port.
C7_EveryPortExposed ==
    (/\ lastcall.op \in {"multiple", "variable"}
     /\ ~lastcall.raised
     /\ Len(lastcall.data) >= 2) =>
        LET n == lastcall.node
            unwired == (0..(Len(lastcall.data) - 1)) \ WiredBefore(n)
        IN  /\ \A i \in 0..(Len(lastcall.data) - 1) :
                    \E e \in OutEdges(edges, n) : e.src_out_port = i
            /\ \A i \in unwired :
                    Cardinality({e \in NewEdges : e.src = n /\ e.src_out_port = i}) = 1
            /\ \A e \in NewEdges :
                    /\ e.src = n /\ e.src_out_port \in unwired /\ e.dst_in_port = 0
                    /\ e.dst \notin DOMAIN pre_nodes /\ nodes[e.dst] = "Out"
            /\ \A x \in pre_edges : \E e \in edges : EdgeId(e) = EdgeId(x)

\* C10: a second infer right after a first one, no plugin raising in either,
\* leaves the is_const flag and the shape of every edge as they were, and
\* adds no node and no edge.
C10_InferTwiceIdentical ==
    (/\ lastcall.op = "infer" /\ lastcall.data = <<{}>>
     /\ prevcall.op = "infer" /\ prevcall.data = <<{}>>) =>
        /\ nodes = pre_nodes
        /\ {EdgeId(e) : e \in edges} = {EdgeId(e) : e \in pre_edges}
        /\ \A e \in edges : \A x \in pre_edges :
                EdgeId(e) = EdgeId(x) =>
                    /\ e.tensor.present = x.tensor.present
                    /\ e.tensor.is_const = x.tensor.is_const
                    /\ e.tensor.shape = x.tensor.shape

(***************************************************************************)
(* Properties of univ_parser.                                              *)
(***************************************************************************)
Executed(stage) == \E i \in ran : Calls[i].stage = stage
LaterStages(stage) ==
    {Calls[j].stage : j \in {k \in DOMAIN Calls :
                                \E i \in DOMAIN Calls : Calls[i].stage = stage /\ k > i}}
        \ {stage}

\* C8: when univ_parser has ended on a loaded graph and one stage raised an
\* exception, the exception was caught and logged and every later stage
\* was executed.
C8_StageFailureContained ==
    (status # "running" /\ graph = "loaded") =>
        \A s \in failed :
            failed = {s} => s \in logged /\ \A t \in LaterStages(s) : Executed(t)

\* C19: when serialize is called, an infer has run before it and no call
\* that mutates the graph has run between the last infer and serialize.
C19_InferBeforeSerialize ==
    \A s \in ran :
        Calls[s].name = "serialize" =>
            LET infers == {i \in ran : Calls[i].name = "infer"}
            IN  /\ infers # {}
                /\ \A j \in ran : (j > Max(infers) /\ j < s) =>
                        Calls[j].name \notin GraphMutating

C11_ReplaceObjKeepsNameAndEdges ==
    lastcall.op = "replace_obj" =>
        /\ DOMAIN nodes = DOMAIN pre_nodes
        /\ nodes[lastcall.node] = lastcall.data[1]
        /\ \A n \in DOMAIN nodes \ {lastcall.node} : nodes[n] = pre_nodes[n]
        /\ edges = pre_edges

\* replace_obj has changed the kind of a node that has edges.
C11_Witness ==
    /\ lastcall.op = "replace_obj"
    /\ nodes[lastcall.node] # pre_nodes[lastcall.node]
    /\ InEdges(pre_edges, lastcall.node) # {}

\* The edges of S that come before e in ascending (port, key) order, and
\* the ones that tie with it, for in edges and for out edges.
InBefore(S, e) == {f \in S : Before(f.dst_in_port, f.key, e.dst_in_port, e.key)}
InTies(S, e) == {f \in S : f.dst_in_port = e.dst_in_port /\ f.key = e.key}
OutBefore(S, e) == {f \in S : Before(f.src_out_port, f.key, e.src_out_port, e.key)}
OutTies(S, e) == {f \in S : f.src_out_port = e.src_out_port /\ f.key = e.key}
ValueOn(e) == IF e.tensor.present THEN e.tensor.value ELSE "None"

\* C14: the edges between two nodes have pairwise distinct keys, add_edge
\* having allocated them; sorted_in_edges and sorted_out_edges return every
\* edge of the node once, ascending by (port, key); and the i-th entry of
\* get_input_tensors is the value of the tensor on the in edge with the i-th
\* smallest (dst_in_port, key), None for an edge without tensor.
C14_KeysAndOrder ==
    /\ \A e \in edges, f \in edges :
        (e.src = f.src /\ e.dst = f.dst /\ e.key = f.key) => e = f
    /\ lastcall.op = "sorted_in_edges" =>
        LET S == InEdges(edges, lastcall.node)
        IN  /\ Len(result) = Cardinality(S)
            /\ \A e \in S : \E i \in (Cardinality(InBefore(S, e)) + 1)..
                                      (Cardinality(InBefore(S, e)) + Cardinality(InTies(S, e))) :
                    result[i] = e
    /\ lastcall.op = "sorted_out_edges" =>
        LET S == OutEdges(edges, lastcall.node)
        IN  /\ Len(result) = Cardinality(S)
            /\ \A e \in S : \E i \in (Cardinality(OutBefore(S, e)) + 1)..
                                      (Cardinality(OutBefore(S, e)) + Cardinality(OutTies(S, e))) :
                    result[i] = e
    /\ lastcall.op = "get_input_tensors" =>
        LET S == InEdges(edges, lastcall.node)
        IN  /\ Len(result) = Cardinality(S)
            /\ \A e \in S : \E i \in (Cardinality(InBefore(S, e)) + 1)..
                                      (Cardinality(InBefore(S, e)) + Cardinality(InTies(S, e))) :
                    result[i] = ValueOn(e)

\* get_input_tensors has been called on a node with two parallel in edges
\* from one source, added without key, whose port order is the reverse of
\* their key order and whose tensors differ.
C14_Witness ==
    /\ lastcall.op = "get_input_tensors"
    /\ \E e \in InEdges(edges, lastcall.node), f \in InEdges(edges, lastcall.node) :
        /\ e.src = f.src /\ e.key = 0 /\ f.key = 1
        /\ f.dst_in_port < e.dst_in_port
        /\ ValueOn(e) # ValueOn(f)
        /\ result = <<ValueOn(f), ValueOn(e)>>

\* C15: matched_patterns returns each satisfying assignment of the symbolic
\* names to nodes once, and nothing else, however many edges there are
\* between the nodes bound; in particular, with two parallel edges
\* from the Foo node Foo0 to the Bar node Bar0 at ports (0, 1) and (0, 0) and
\* no other edge to a Bar node, the pattern edge constrained to
\* src_out_port 0 and dst_in_port 1 yields exactly one binding.
C15_OneBindingPerAssignment ==
    lastcall.op = "matched_patterns" =>
        LET pattern_nodes == {PatternNode("x", {"Foo"}), PatternNode("y", {"Bar"})}
            pe == PatternEdge("x", "y", lastcall.data[1], lastcall.data[2])
            satisfying == {b \in [{"x", "y"} -> DOMAIN nodes] :
                            /\ nodes[b["x"]] = "Foo" /\ nodes[b["y"]] = "Bar"
                            /\ \E e \in edges :
                                /\ e.src = b["x"] /\ e.dst = b["y"]
                                /\ pe.src_out_port \in {AnyPort, e.src_out_port}
                                /\ pe.dst_in_port \in {AnyPort, e.dst_in_port}}
        IN  /\ Range(result) = satisfying
            /\ Len(result) = Cardinality(satisfying)
            /\ ({<<e.src_out_port, e.dst_in_port>> :
                    e \in {x \in edges : x.src = "Foo0" /\ x.dst = "Bar0"}} = {<<0, 1>>, <<0, 0>>}
                /\ OutEdges(edges, "Foo1") = {}
                /\ nodes["Foo0"] = "Foo" /\ nodes["Bar0"] = "Bar"
                /\ lastcall.data = <<0, 1>>)
               => result = <<[x |-> "Foo0", y |-> "Bar0"]>>

\* matched_patterns has been asked for the pattern edge with src_out_port 0
\* and dst_in_port 1 on a graph with exactly two edges, Foo0 -> Bar0 at
\* ports (0, 1) and (0, 0).
C15_Witness ==
    /\ lastcall.op = "matched_patterns"
    /\ lastcall.data = <<0, 1>>
    /\ Cardinality(edges) = 2
    /\ {<<e.src, e.dst, e.src_out_port, e.dst_in_port>> : e \in edges}
        = {<<"Foo0", "Bar0", 0, 1>>, <<"Foo0", "Bar0", 0, 0>>}
    /\ Len(result) = 1

\* C16: single_node_matcher returns exactly the nodes whose kind is one of
\* the kinds asked for: each of them, no other node, and none twice.
C16_ExactlyTheNodesOfKind ==
    lastcall.op = "single_node_matcher" =>
        LET wanted == {n \in DOMAIN nodes : nodes[n] \in lastcall.data[1]}
        IN  /\ {m.target : m \in Range(result)} = wanted
            /\ \A i \in 1..Len(result) : DOMAIN result[i] = {"target"}
            /\ Len(result) = Cardinality(wanted)

\* single_node_matcher was asked for two kinds on a graph with edges that
\* has nodes of each of the two kinds and a node of another kind.
C16_Witness ==
    /\ lastcall.op = "single_node_matcher"
    /\ lastcall.data[1] = {"Foo", "Baz"}
    /\ edges # {}
    /\ \E n \in DOMAIN nodes : nodes[n] = "Baz"
    /\ \E n \in DOMAIN nodes : nodes[n] = "Foo"
    /\ \E n \in DOMAIN nodes : nodes[n] \notin {"Foo", "Baz"}
    /\ Len(result) = 2

(***************************************************************************)
(* Properties of the rewrite passes.                                       *)
(***************************************************************************)
PassNames == {"remove_identity_n", "remove_switch", "remove_merge"}

C13_RemovalKeepsOutputNames ==
    lastcall.op \in {"remove_edge", "remove_edges_from", "remove_switch"} =>
        output_names = pre_output_names

\* remove_switch has cut off a switch node that output_names lists.
C13_Witness ==
    /\ lastcall.op = "remove_switch"
    /\ result.matched
    /\ \E i \in 1..Len(output_names) :
        /\ pre_nodes[output_names[i]] = "TfSwitch"
        /\ InEdges(pre_edges, output_names[i]) # {}
        /\ InEdges(edges, output_names[i]) = {}

(***************************************************************************)
(* Properties of cal_pads.                                                 *)
(***************************************************************************)
\* For dimension i of a call for a transposed convolution:
\* (in-1)*stride + output_padding + (kernel-1)*dilation + 1 - out, a missing
\* output padding counting as 0 and a missing dilation as 1, and not below 0
\* when zero_minimum is set.
ExpectedTotal(i) ==
    LET a == pad_args
        output_padding == IF a.out_padding = <<>> THEN 0 ELSE a.out_padding[i]
        dilation == IF a.dilations = <<>> THEN 1 ELSE a.dilations[i]
        total == (a.in_shape[i] - 1) * a.strides[i] + output_padding
                 + (a.kernel_shape[i] - 1) * dilation + 1 - a.out_shape[i]
    IN  IF a.zero_minimum /\ total < 0 THEN 0 ELSE total

PadHead(i) == pad_result[i]
PadTail(i) == pad_result[Len(pad_args.in_shape) + i]

\* floor(x/2), and x/2 rounded toward zero
FloorHalf(x) == IF x >= 0 THEN x \div 2 ELSE -((1 - x) \div 2)
TowardZeroHalf(x) == IF x >= 0 THEN x \div 2 ELSE -((-x) \div 2)

\* C17 as stated: for a transposed convolution, head and tail pad of every
\* dimension add up to the total, and with SAME_UPPER the head pad is
\* floor(total/2) and the tail the remainder, otherwise the tail is
\* floor(total/2) and the head the remainder.
C17_Original ==
    (pad_result # <<>> /\ pad_args.is_transpose) =>
        /\ Len(pad_result) = 2 * Len(pad_args.in_shape)
        /\ \A i \in 1..Len(pad_args.in_shape) :
            /\ PadHead(i) + PadTail(i) = ExpectedTotal(i)
            /\ IF pad_args.auto_pad = "SAME_UPPER"
               THEN PadHead(i) = FloorHalf(ExpectedTotal(i))
               ELSE PadTail(i) = FloorHalf(ExpectedTotal(i))

\* C17, amended: for a transposed convolution, head and tail pad of every
\* dimension add up to the total, and with SAME_UPPER the head pad is half
\* the total rounded toward zero and the tail the remainder, otherwise the
\* tail is half the total rounded toward zero and the head the remainder.
C17_HalfTowardZero ==
    (pad_result # <<>> /\ pad_args.is_transpose) =>
        /\ Len(pad_result) = 2 * Len(pad_args.in_shape)
        /\ \A i \in 1..Len(pad_args.in_shape) :
            /\ PadHead(i) + PadTail(i) = ExpectedTotal(i)
            /\ IF pad_args.auto_pad = "SAME_UPPER"
               THEN PadHead(i) = TowardZeroHalf(ExpectedTotal(i))
               ELSE PadTail(i) = TowardZeroHalf(ExpectedTotal(i))

\* cal_pads has returned for a transposed convolution with two dimensions,
\* output padding given and SAME_UPPER, one total odd and positive and the
\* other odd and negative.
C17_Witness ==
    /\ pad_result # <<>>
    /\ pad_args.is_transpose
    /\ pad_args.auto_pad = "SAME_UPPER"
    /\ Len(pad_args.in_shape) = 2
    /\ pad_args.out_padding # <<>>
    /\ ExpectedTotal(1) > 0 /\ ExpectedTotal(1) % 2 = 1
    /\ ExpectedTotal(2) < 0 /\ ExpectedTotal(2) % 2 = 1
    /\ PadHead(1) < PadTail(1)

\* The opcode version the caller asks for: attr_dict's, 1 by default.
Requested ==
    IF "opcode_version" \in DOMAIN attr_dict THEN attr_dict["opcode_version"] ELSE PyInt(1)

\* A TFLite or TF op whose constructor ended, asked for a version its class
\* does not declare, and not assigned to since.
UndeclaredVersion ==
    /\ Framework(cls) \in {"tflite", "tf"}
    /\ pc = 0
    /\ nsets = 0
    /\ Requested.n \notin Range(vers)

\* The op carries exactly the entries of the highest declared version on top
\* of those of its base classes, with that version's types and defaults, and
\* the caller's value where attr_dict names the entry.
HighestSchemaApplied ==
    LET schema == VerAttributes(cls, Max(Range(vers)))
        other == VerAttributes(cls, 1) \o VerAttributes(cls, 2)
    IN  /\ \A i \in DOMAIN schema :
              LET k == schema[i][1]
                  p == schema[i][2]
              IN  /\ k \in DOMAIN attrs
                  /\ attrs[k].type = p.type
                  /\ attrs[k].default = p.default
                  /\ attrs[k].value = IF k \in DOMAIN attr_dict THEN attr_dict[k]
                                      ELSE p.default
        /\ \A i \in DOMAIN other : other[i][1] \in DOMAIN attrs => other[i][1] \in Names(schema)

Proceeds ==
    /\ built = "yes"
    /\ attrs["cur_version"].value = Requested
    /\ HighestSchemaApplied

\* C20 as stated: a TFLite or TF op constructed with an opcode version its
\* class does not declare is built, a warning is logged, cur_version is the
\* requested version and the entries are those of the highest declared version.
C20_Original ==
    UndeclaredVersion => Proceeds /\ oplog # {}

\* C20: a TFLite or TF op constructed with an opcode version its class does
\* not declare is built, cur_version is the requested version and the entries
\* are those of the highest declared version; the warning is logged for a
\* TFLite op and none is logged for a TF op.
C20_WarningOnlyForTflite ==
    UndeclaredVersion => Proceeds /\ (oplog # {} <=> Framework(cls) = "tflite")

C20_Witness ==
    /\ UndeclaredVersion
    /\ built = "yes"
    /\ cls = "LiteLayer"
    /\ vers = <<2, 1>>
    /\ Requested = PyInt(3)
    /\ "alpha" \notin DOMAIN attr_dict
    /\ attrs["alpha"].value = PyInt(2)
    /\ "beta" \in DOMAIN attrs
    /\ oplog # {}

(***************************************************************************)
(* Properties of remove_switch, remove_merge and remove_identity_n, stated *)
(* on the graph before the pass (pre_nodes, pre_edges) and after it.       *)
(***************************************************************************)
PreGraph == [nodes |-> pre_nodes, edges |-> pre_edges]
PreSwitches == {n \in DOMAIN pre_nodes : pre_nodes[n] = "TfSwitch"}
SwitchIn(s) == sorted_in_edges(PreGraph, s)

\* The switch has exactly two inputs and the tensor of the second, the
\* predicate, is constant.
Rewritable(s) ==
    /\ Len(SwitchIn(s)) = 2
    /\ SwitchIn(s)[2].tensor.present
    /\ SwitchIn(s)[2].tensor.is_const

SelectedPort(s) == IF Truth(SwitchIn(s)[2].tensor.value) THEN 1 ELSE 0

\* The consumer of out edge o of switch s has an edge from the producer of
\* the switch's data input, with the data edge's port and tensor, at the
\* in-port of o.
Rewired(s, o) ==
    \E e \in edges :
        /\ e.src = SwitchIn(s)[1].src
        /\ e.dst = o.dst
        /\ e.src_out_port = SwitchIn(s)[1].src_out_port
        /\ e.tensor = SwitchIn(s)[1].tensor
        /\ e.dst_in_port = o.dst_in_port

\* The consumer of out edge o got no edge in exchange.
NotReplaced(o) ==
    ~\E e \in edges \ pre_edges : e.dst = o.dst /\ e.dst_in_port = o.dst_in_port

Untouched(s) ==
    /\ s \in DOMAIN nodes
    /\ nodes[s] = pre_nodes[s]
    /\ \A e \in pre_edges \cup edges :
          (e.src = s \/ e.dst = s) => e \in pre_edges \cap edges

\* C21 as stated: every consumer of the selected port of a rewritable switch
\* ends with the replacement edge, the consumers of the other port with none,
\* the switch with no incident edge; any other switch is left as it was.
C21_Original ==
    lastcall.op = "remove_switch" =>
        \A s \in PreSwitches :
            IF Rewritable(s)
            THEN /\ \A o \in OutEdges(pre_edges, s) :
                      IF o.src_out_port = SelectedPort(s) THEN Rewired(s, o)
                      ELSE NotReplaced(o)
                 /\ \A e \in edges : e.src # s /\ e.dst # s
            ELSE Untouched(s)

\* C21: when s is the only switch of the graph that has two inputs and a
\* constant predicate, every consumer of its selected port that the final
\* clear_redundant_nodes keeps ends with the replacement edge, the consumers
\* of the other port get none and s is left with no incident edge; when the
\* graph has no such switch, the pass warns about each switch and leaves
\* nodes, edges and output_names as they were.
C21_SelectedPortRewired ==
    lastcall.op = "remove_switch" =>
        LET rewritable == {s \in PreSwitches : Rewritable(s)}
        IN  /\ \A s \in rewritable :
                  rewritable = {s} =>
                      /\ \A o \in OutEdges(pre_edges, s) :
                            IF o.src_out_port = SelectedPort(s)
                            THEN o.dst \in DOMAIN nodes => Rewired(s, o)
                            ELSE NotReplaced(o)
                      /\ \A e \in edges : e.src # s /\ e.dst # s
            /\ rewritable = {} =>
                  /\ nodes = pre_nodes
                  /\ edges = pre_edges
                  /\ output_names = pre_output_names
                  /\ lastcall.warned = PreSwitches

\* remove_switch has rewritten a switch with a true predicate that feeds one
\* consumer from port 1, which is kept, and another from port 0.
C21_Witness ==
    /\ lastcall.op = "remove_switch"
    /\ \E s \in PreSwitches :
          /\ Rewritable(s)
          /\ SelectedPort(s) = 1
          /\ \E o1, o2 \in OutEdges(pre_edges, s) :
                /\ o1.src_out_port = 1 /\ o2.src_out_port = 0
                /\ o1.dst \in DOMAIN nodes
                /\ Rewired(s, o1)
                /\ NotReplaced(o2)

PreMerges == {n \in DOMAIN pre_nodes : pre_nodes[n] = "TfMerge"}
MergeIn(m) == sorted_in_edges(PreGraph, m)

\* C22: remove_merge gives every consumer of a TfMerge (that the final
\* clear_redundant_nodes keeps) an edge from the producer of the merge's
\* input edge at position value_index, at the consumer's dst_in_port; for a
\* TfMerge whose value_index indexes no input edge, the case of value_index
\* equal to the number of input edges included, it warns, raises nothing and
\* leaves the graph as it was.
C22_WarnsOnBadIndex ==
    lastcall.op = "remove_merge" =>
        \A m \in PreMerges :
            IF value_index # None /\ value_index.n < Len(MergeIn(m))
            THEN \A o \in OutEdges(pre_edges, m) :
                    o.dst \in DOMAIN nodes =>
                        \E e \in edges :
                            /\ e.src = MergeIn(m)[value_index.n + 1].src
                            /\ e.dst = o.dst
                            /\ e.dst_in_port = o.dst_in_port
            ELSE /\ ~lastcall.raised
                 /\ m \in lastcall.warned
                 /\ nodes = pre_nodes
                 /\ edges = pre_edges
                 /\ output_names = pre_output_names

\* The TfIdentityN nodes the pass rewrites: those with at least one input.
PreIdentityNs ==
    {n \in DOMAIN pre_nodes : pre_nodes[n] = "TfIdentityN" /\ InEdges(pre_edges, n) # {}}

\* Out edge o of the IdentityN was replaced by an edge from the producer of
\* in edge i to the consumer of o, at the in-port of o.
Bypassed(i, o) ==
    /\ o \notin edges
    /\ \E e \in edges :
          /\ e.src = i.src /\ e.src_out_port = i.src_out_port /\ e.tensor = i.tensor
          /\ e.dst = o.dst /\ e.dst_in_port = o.dst_in_port

\* No out edge of the IdentityN leaves the port of in edge i, and no other
\* edge leaves the producer port of i.
Unconsumed(n, i) ==
    /\ \A o \in OutEdges(pre_edges, n) : o.src_out_port # i.dst_in_port
    /\ \A e \in OutEdges(pre_edges, i.src) : e.src_out_port = i.src_out_port => e = i

HasSink(i) ==
    \E e \in edges :
        /\ e.src = i.src /\ e.src_out_port = i.src_out_port /\ e.tensor = i.tensor
        /\ e.dst_in_port = 0
        /\ e.dst \in DOMAIN nodes /\ nodes[e.dst] = "Out"
        /\ e.dst \notin DOMAIN pre_nodes

\* output_names with the first n replaced by the names of srcs that the
\* rest does not list.
RECURSIVE Fresh(_, _)
Fresh(srcs, listed) ==
    IF srcs = <<>> THEN <<>>
    ELSE IF Head(srcs) \in listed THEN Fresh(Tail(srcs), listed)
    ELSE <<Head(srcs)>> \o Fresh(Tail(srcs), listed \cup {Head(srcs)})

Producers(n) ==
    LET ins == sorted_in_edges(PreGraph, n)
    IN  [k \in 1..Len(ins) |-> ins[k].src]

ReplacedAtPosition(names, n) ==
    LET k == Index(names, n)
        rest == SubSeq(names, 1, k - 1) \o SubSeq(names, k + 1, Len(names))
    IN  SubSeq(names, 1, k - 1) \o Fresh(Producers(n), Range(rest))
        \o SubSeq(names, k + 1, Len(names))

NoDuplicates(names) == \A a, b \in 1..Len(names) : names[a] = names[b] => a = b

Former(e) ==
    IF \E x \in pre_edges : EdgeId(x) = EdgeId(e)
    THEN CHOOSE x \in pre_edges : EdgeId(x) = EdgeId(e)
    ELSE e

\* C24: set_out_tensor on a variable-output node writes tensor_data_list[p]
\* to every outgoing edge whose src_out_port is p and leaves the edges of the
\* ports the list does not reach as they were: the values on the edges are
\* those set_out_tensor of a multiple-output node writes for the same list,
\* whatever ports are wired.
C24_SameMappingAsMultiple ==
    (lastcall.op = "variable" /\ ~lastcall.raised) =>
        LET n == lastcall.node
            len == Len(lastcall.data)
            M == SetOutTensorMultiple(PreGraph, n, lastcall.data)
        IN  /\ \A e \in OutEdges(edges, n) :
                  IF e.src_out_port < len
                  THEN e.tensor.present /\ e.tensor.value = lastcall.data[e.src_out_port + 1]
                  ELSE e.tensor = Former(e).tensor
            /\ \A e \in OutEdges(edges, n) :
                  \E f \in M.edges :
                      /\ EdgeId(f) = EdgeId(e)
                      /\ f.tensor.present = e.tensor.present
                      /\ f.tensor.value = e.tensor.value

\* Every Attribute of the op that has options holds one of them.
ValuesWithinOptions ==
    \A k \in DOMAIN attrs :
        (IsAttribute(attrs, k) /\ attrs[k].options # {}) =>
            PyIn(attrs[k].value, attrs[k].options)

\* C25: an op whose constructor asserted check_required and returned holds,
\* in every attribute declared with options, one of the options, at the end
\* of the constructor and after any later assignment op.attr = value; so
\* check_required() returns True on it from then on.
C25_OptionsKept ==
    built = "yes" =>
        /\ ValuesWithinOptions
        /\ check_required(attrs)
        /\ chk # "False"

(***************************************************************************)
(* Properties of convert_gru_lstm and convert_nms.                         *)
(***************************************************************************)
\* The Reshape nodes the last pass put behind the outputs of node n and
\* listed in output_names, each with the output port it was put behind.
NewProducers(n) ==
    {m \in Range(result.made) :
        /\ m.name \in Range(output_names)
        /\ \E e \in edges : e.src = n /\ e.dst = m.name}

\* The nodes of output_names that the last pass replaced by new producers.
ReplacedOutputs ==
    {n \in Range(pre_output_names) :
        n \notin Range(output_names) /\ NewProducers(n) # {}}

\* The new producers of n by ascending output port.
InPortOrder(n) ==
    LET S == NewProducers(n)
    IN  [i \in 1..Cardinality(S) |->
            (CHOOSE m \in S : Cardinality({x \in S : x.port < m.port}) = i - 1).name]

\* names with every replaced node exchanged for its new producers in port
\* order.
RECURSIVE Exchanged(_, _)
Exchanged(names, i) ==
    IF i > Len(names) THEN <<>>
    ELSE (IF names[i] \in ReplacedOutputs THEN InPortOrder(names[i]) ELSE <<names[i]>>)
         \o Exchanged(names, i + 1)

\* C26: when a pass replaces a node listed in output_names by several new
\* producer nodes, the new names stand where the replaced node stood, by
\* ascending output port of the replaced node; a GRU/LSTM with
\* return_sequences and return_state is replaced by Y (port 0), Y_h (port 1)
\* and, for an LSTM, Y_c (port 2).
C26_NewNamesInPortOrder ==
    lastcall.op \in {"convert_gru_lstm", "convert_nms"} =>
        /\ (\E n \in ReplacedOutputs : Cardinality(NewProducers(n)) >= 2)
               => output_names = Exchanged(pre_output_names, 1)
        /\ \A n \in Range(pre_output_names) :
               (/\ lastcall.op = "convert_gru_lstm"
                /\ pre_nodes[n] \in RnnKinds
                /\ n \notin result.warned
                /\ rnn_obj.return_sequences /\ rnn_obj.return_state)
               => /\ n \in ReplacedOutputs
                  /\ {m.port : m \in NewProducers(n)}
                         = (IF pre_nodes[n] = "TfLSTM" THEN 0..2 ELSE 0..1)
                  /\ output_names = Exchanged(pre_output_names, 1)

\* What univ_parser logged when the processing of the model raised, when the
\* model type is unsupported, and when it set ret to False.
LoadFailures == {"processing models", "framework"}
ReportedThroughRet == {"params", "model file", "processing models"}

\* C27: univ_parser returns False whenever the processing of the input model
\* raised an exception or the model type is unsupported, and it returns True
\* only when nothing reported a failure through the return value.
C27_FalseOnLoadFailure ==
    status = "returned" =>
        /\ (logged \cap LoadFailures # {}) => ret = FALSE
        /\ ret = TRUE => logged \cap ReportedThroughRet = {}

(***************************************************************************)
(* Properties of the permutation helpers.                                  *)
(***************************************************************************)
\* C28: a call of perm_tf_to_lite on a weight-bearing class ends without an
\* exception and returns the inverse of that class's perm_lite_to_tf, None
\* when that is None, as perm_onnx_to_lite returns the inverse of
\* perm_lite_to_onnx.
C28_TfToLiteIsInverse ==
    /\ perm_depth < MaxDepth
    /\ perm_last.fn = "perm_tf_to_lite" =>
           /\ perm_last.raised = "none"
           /\ perm_last.value = cal_inverse_perm(perm_lite_to_tf(perm_last.cls)).value
    /\ perm_last.fn = "perm_onnx_to_lite" =>
           /\ perm_last.raised = "none"
           /\ perm_last.value = cal_inverse_perm(perm_lite_to_onnx(perm_last.cls)).value

\* p is a list that holds each of 0..n-1 once, n >= 1.
IsPermutation(p) ==
    /\ IsList(p) /\ Len(p.l) >= 1
    /\ \A i \in 0..(Len(p.l) - 1) : \E j \in 1..Len(p.l) : p.l[j] = i

\* q[p[i]] = i for every position i of p (items and positions from 0).
InverseOf(q, p) ==
    /\ IsList(q) /\ Len(q.l) = Len(p.l)
    /\ \A i \in 1..Len(p.l) : q.l[p.l[i] + 1] = i - 1

\* The last call was fn on what the call before it, gn, returned.
Chained(gn, fn) ==
    /\ perm_prev.fn = gn /\ perm_prev.raised = "none"
    /\ perm_last.fn = fn /\ perm_last.arg = perm_prev.value

\* C30: cal_inverse_perm(p) of a permutation p of 0..n-1, n >= 1, is the
\* permutation q with q[p[i]] = i, so the inverse of the inverse is p; it is
\* None for None and for an empty list; perm_nhwc_to_nchw is the inverse of
\* perm_nchw_to_nhwc, and shape_nhwc_to_nchw(shape_nchw_to_nhwc(s)) = s for
\* every shape s of four dimensions.
C30_InverseRoundTrip ==
    /\ (perm_last.fn = "cal_inverse_perm" /\ IsPermutation(perm_last.arg))
           => /\ perm_last.raised = "none"
              /\ IsPermutation(perm_last.value)
              /\ InverseOf(perm_last.value, perm_last.arg)
    /\ (Chained("cal_inverse_perm", "cal_inverse_perm") /\ IsPermutation(perm_prev.arg))
           => perm_last.raised = "none" /\ perm_last.value = perm_prev.arg
    /\ (perm_last.fn = "cal_inverse_perm" /\ perm_last.arg \in {None, PyInts(<<>>)})
           => perm_last.raised = "none" /\ perm_last.value = None
    /\ perm_last.fn = "perm_nhwc_to_nchw"
           => InverseOf(perm_last.value, perm_nchw_to_nhwc)
    /\ (/\ Chained("shape_nchw_to_nhwc", "shape_nhwc_to_nchw")
        /\ IsList(perm_prev.arg) /\ Len(perm_prev.arg.l) = 4)
           => perm_last.raised = "none" /\ perm_last.value = perm_prev.arg

\* A permutation that is not its own inverse was inverted twice.
C30_Witness ==
    /\ Chained("cal_inverse_perm", "cal_inverse_perm")
    /\ IsPermutation(perm_prev.arg)
    /\ perm_prev.value # perm_prev.arg
    /\ perm_last.value = perm_prev.arg

(***************************************************************************)
(* Properties of the loop over the matches of a pass.                      *)
(***************************************************************************)
\* The passes and the steps of the last one.
Passes == {"remove_identity_n", "remove_switch", "remove_merge", "convert_gru_lstm", "convert_nms"}
Steps == IF lastcall.op \in Passes THEN result.trace ELSE <<>>

\* Step i took up a match and changed the graph or output_names.
Mutated(i) == Steps[i].ev = "match" /\ Steps[i].pre # Steps[i].post

\* The in edges the pass asks of a node it rewrites.
EnoughInputs(op, k) ==
    CASE op = "remove_switch" -> k = 2
      [] op = "convert_nms" -> k >= 5
      [] OTHER -> k >= 1

\* C29: in a rewrite pass all matches are collected before the first
\* mutation; a match is validated against the graph as it is when the loop
\* takes it up; and a match rejected with a warning leaves nodes, edges, op
\* types and output_names as they were before it was taken up.
C29_CollectThenMutate ==
    /\ \A i \in DOMAIN Steps, j \in DOMAIN Steps :
           (i < j /\ Mutated(i)) => ~(Steps[j].ev = "collect" /\ Steps[j].found # {})
    /\ \A i \in DOMAIN Steps :
           Mutated(i) =>
               /\ Steps[i].node \in DOMAIN Steps[i].pre.nodes
               /\ Steps[i].pre.nodes[Steps[i].node] # "None"
               /\ EnoughInputs(lastcall.op,
                               Cardinality(InEdges(Steps[i].pre.edges, Steps[i].node)))
    /\ \A i \in DOMAIN Steps :
           (Steps[i].ev = "match" /\ Steps[i].rejected) => Steps[i].post = Steps[i].pre

=============================================================================
